---- MODULE Spec2Model ----
(***************************************************************************)
(* Boundary-condition block assembly of the boundary-mapping pipeline.     *)
(*                                                                         *)
(* The module models src/src/bc_generators.py: role resolution and         *)
(* grouping for internal flow (generate_internal_bc_blocks) and the real   *)
(* wall blocks plus synthesized far-field blocks for external flow         *)
(* (generate_external_bc_blocks).  One behaviour is one call of the        *)
(* pipeline entry point generate_boundary_conditions on one input.         *)
(*                                                                         *)
(* Coordinates are integers in the unit of the geometry; TOL is the        *)
(* constant of the source, in the same unit.  Python indices are 0-based;  *)
(* tuples of the model are 1-based, so vec[i + 1] reads Python's vec[i].   *)
(***************************************************************************)
EXTENDS Integers, Sequences, FiniteSets, TLC

VARIABLES
    pc,                 \* position of the call
    flow_region,        \* "internal" | "external"
    velocity,           \* initial velocity vector
    pressure,           \* inlet pressure
    no_slip,            \* wall no-slip flag
    surfaces,           \* list of (dim, tag) surface entities
    face_geometry_data, \* face id -> [face_label, max_index, p_centroid]
    face_roles,         \* face id -> <<role, label>>
    min_bounds,         \* bounding box minimum
    max_bounds,         \* bounding box maximum
    axis_index,         \* dominant flow axis, 0..2
    is_positive_flow,   \* sign of the velocity on the flow axis
    todo,               \* keys of face_geometry_data not yet visited by loop 1
    idx,                \* position of the surfaces loop (1-based)
    grouped_blocks,     \* insertion-ordered dict: sequence of [key, block]
    boundary_conditions,\* the list being returned
    synthesized_id,     \* id of the next synthesized far-field face
    perp_todo,          \* far-field wall labels still to be emitted
    error,              \* message of the exception raised, "" if none
    debug,              \* the debug flag of the generators
    log,                \* the [DEBUG] lines printed, each <<kind, face id>>
    given_roles,        \* face_roles as the caller passed it
    \* --- override loading and merging (src/src/override_loader.py) ---
    ov_pc,              \* position in load_override_config / apply_overrides
    override_file,      \* the override file: [state, content]
    boundary_data,      \* the automatic classification passed to apply_overrides
    overrides,          \* the override map returned by load_override_config
    updated,            \* the dict apply_overrides builds and returns
    ov_todo,            \* override labels the merge loop has not visited yet
    ov_pass,            \* 1 for the first application, 2 for the re-application
    ov_first,           \* result of the first application
    ov_error,           \* exception raised by the override stage, "" if none
    \* --- classification and clustering (bbox_classifier.py, clustering_engine.py) ---
    c_pc,               \* position in classify_faces / cluster_faces
    c_entry,            \* the function called: classify_faces or cluster_faces
    faces,              \* the faces given, each [id, vertices]
    thresholds,         \* directional_thresholds: axis -> cosine, in hundredths
    strict_face_validation,  \* CONFIG["strict_face_validation"]
    enable_clustering,  \* CONFIG["enable_fallback_clustering"]
    n_clusters,         \* n_clusters of cluster_faces
    face_idx,           \* index of the face the classification loop is at
    all_face_ids,       \* ids in input order
    directional_faces,  \* label -> ids, in insertion order
    ambiguous_faces,    \* faces no axis label was found for
    cluster_input,      \* the faces given to cluster_faces
    fallback_clusters,  \* what cluster_faces returned
    result,             \* what classify_faces returned
    c_error,            \* exception raised by this stage, "" if none
    \* --- the gmsh runner (gmsh_runner.py, schema_writer.py) ---
    r_pc,               \* position in extract_boundary_conditions_from_step / __main__
    step_file,          \* the STEP file: absent, without volumes, ...
    gmsh_fault,         \* the phase in which a kernel call raises, "none" if none
    classify_outcome,   \* "ok" or the exception classify_faces raises
    classified,         \* boundary_conditions of the classification
    block_valid,        \* whether the generated block satisfies the schema
    flow_data,          \* flow_data.json: absent, ok or malformed
    output_arg,         \* whether --output was given
    bbox_dims,          \* extents of the bounding box of the first volume
    volume_count,       \* number of 3-D volumes the kernel reports
    geometry_type,      \* what classify_geometry returned, "" before
    gmsh_initialized,   \* calls of gmsh.initialize()
    gmsh_finalized,     \* calls of gmsh.finalize()
    boundary_block,     \* the block being generated
    validated,          \* validate_boundary_conditions was called
    written,            \* calls of write_boundary_json
    r_error,            \* exception raised by the run, "" if none
    \* --- inlet injection (src/src/create_inlet_boundary.py) ---
    boundary_config,    \* the boundary config dict, updated in place
    given_config,       \* the config before the first call
    inlet_velocity,     \* velocity argument of the latest call
    inlet_pressure,     \* pressure argument of the latest call
    injections          \* calls of inject_inlet_boundary so far

gvars == <<pc, flow_region, velocity, pressure, no_slip, surfaces,
          face_geometry_data, face_roles, min_bounds, max_bounds, axis_index,
          is_positive_flow, todo, idx, grouped_blocks, boundary_conditions,
          synthesized_id, perp_todo, error, debug, log, given_roles>>

ovars == <<ov_pc, override_file, boundary_data, overrides, updated, ov_todo,
           ov_pass, ov_first, ov_error>>

cvars == <<c_pc, c_entry, faces, thresholds, strict_face_validation, enable_clustering,
           n_clusters, face_idx, all_face_ids, directional_faces,
           ambiguous_faces, cluster_input, fallback_clusters, result, c_error>>

rvars == <<r_pc, step_file, gmsh_fault, classify_outcome, classified,
           block_valid, flow_data, output_arg, bbox_dims, volume_count,
           geometry_type, gmsh_initialized, gmsh_finalized, boundary_block,
           validated, written, r_error>>

ivars == <<boundary_config, given_config, inlet_velocity, inlet_pressure,
           injections>>

vars == <<gvars, ovars, cvars, rvars, ivars>>

\* The state outside one stage
not_g == <<ovars, cvars, rvars, ivars>>

not_o == <<gvars, cvars, rvars, ivars>>

not_c == <<gvars, ovars, rvars, ivars>>

not_r == <<gvars, ovars, cvars, ivars>>

not_i == <<gvars, ovars, cvars, rvars>>

inputs == <<flow_region, velocity, pressure, no_slip, surfaces,
            face_geometry_data, min_bounds, max_bounds, debug, given_roles>>

----------------------------------------------------------------------------
(* Bounds of the model *)

MaxFaces == 2

\* Blocks in a boundary config before injection, and calls of the injection
MaxBlocks == 2

MaxInjections == 2

(* Program constants *)

TOL == 1000

PRESSURE == 101325

----------------------------------------------------------------------------
(* Helpers *)

Abs(x) == IF x < 0 THEN -x ELSE x

Range(s) == {s[k] : k \in 1..Len(s)}

SeqsUpTo(S, n) == UNION {[1..k -> S] : k \in 0..n}

PartialFns(D, R) == UNION {[S -> R] : S \in SUBSET D}

\* dict.get(key, default)
Get(d, k, default) == IF k \in DOMAIN d THEN d[k] ELSE default

\* Put that keeps the value a key already has (dict.setdefault)
Put_KeepExisting(d, k, v) ==
    [x \in DOMAIN d \cup {k} |-> IF x \in DOMAIN d THEN d[x] ELSE v]

\* d[k] = v on a dict
Put(d, k, v) == [x \in DOMAIN d \cup {k} |-> IF x = k THEN v ELSE d[x]]

AxisLabels == <<"x", "y", "z">>

MinLabel(i) == <<"x_min", "y_min", "z_min">>[i + 1]

MaxLabel(i) == <<"x_max", "y_max", "z_max">>[i + 1]

DirectionalLabels == {"x_min", "x_max", "y_min", "y_max", "z_min", "z_max"}

Roles == {"inlet", "outlet", "wall", "skip"}

----------------------------------------------------------------------------
(* Input space *)

FaceIds == {0, 1, 2}

ExternalFaceIds == {-1, 0, 1}

Extents == {2, 3000}

Velocities == {<<0, 0, 0>>, <<1, 0, 0>>, <<-1, 0, 0>>, <<0, 1, 0>>,
               <<0, -1, 0>>, <<0, 0, 1>>, <<0, 0, -1>>}

\* Faces of a duct in the box [0, m]^3: the caps on the x planes, a lateral
\* face on the y_min plane, and two faces inside the box.
GeometryOptions(m) ==
    LET h == m \div 2 IN
    { [face_label |-> "x_min", max_index |-> 0, p_centroid |-> <<0, h, h>>],
      [face_label |-> "x_max", max_index |-> 0, p_centroid |-> <<m, h, h>>],
      [face_label |-> "wall",  max_index |-> 0, p_centroid |-> <<h, h, h>>],
      [face_label |-> "y_min", max_index |-> 1, p_centroid |-> <<h, 0, h>>],
      [face_label |-> "wall",  max_index |-> 1, p_centroid |-> <<h, h, h>>] }

\* (role, label) pairs an upstream classifier records
IncomingRoles == {<<"wall", "wall">>, <<"skip", "skip">>,
                  <<"inlet", "x_min">>, <<"outlet", "x_max">>}

Tags(ids) == {<<2, f>> : f \in ids}

FaceIdsOf(s) == {s[k][2] : k \in 1..Len(s)}

----------------------------------------------------------------------------
(* Pure parts of generate_internal_bc_blocks *)

is_min_bound_face(coord_val, min_bound) == Abs(coord_val - min_bound) < TOL

is_max_bound_face(coord_val, max_bound) == Abs(coord_val - max_bound) < TOL

\* ResolveRole with the flow-axis else branch (lines 45-48) naming a role
\* outside the four
ResolveRole_UnknownRole(data, ax, positive, minb, maxb) ==
    LET face_axis_index == data.max_index
        coord_val == data.p_centroid[face_axis_index + 1]
        is_min == is_min_bound_face(coord_val, minb[face_axis_index + 1])
        is_max == is_max_bound_face(coord_val, maxb[face_axis_index + 1])
    IN  IF face_axis_index = ax
        THEN IF is_min
             THEN <<IF positive THEN "inlet" ELSE "outlet",
                    MinLabel(face_axis_index)>>
             ELSE IF is_max
                  THEN <<IF positive THEN "outlet" ELSE "inlet",
                         MaxLabel(face_axis_index)>>
                  ELSE <<"internal", "wall">>
        ELSE IF is_min \/ is_max
             THEN <<"skip", "skip">>
             ELSE <<"wall", "wall">>

\* ResolveRole without the perpendicular bounding-plane branch (lines 50-55)
ResolveRole_NoSkip(data, ax, positive, minb, maxb) ==
    LET face_axis_index == data.max_index
        coord_val == data.p_centroid[face_axis_index + 1]
        is_min == is_min_bound_face(coord_val, minb[face_axis_index + 1])
        is_max == is_max_bound_face(coord_val, maxb[face_axis_index + 1])
    IN  IF face_axis_index = ax
        THEN IF is_min
             THEN <<IF positive THEN "inlet" ELSE "outlet",
                    MinLabel(face_axis_index)>>
             ELSE IF is_max
                  THEN <<IF positive THEN "outlet" ELSE "inlet",
                         MaxLabel(face_axis_index)>>
                  ELSE <<"wall", "wall">>
        ELSE <<"wall", "wall">>

\* ResolveRole with the max-plane branch (line 41) following the min-plane
\* convention of line 37
ResolveRole_MixedConvention(data, ax, positive, minb, maxb) ==
    LET face_axis_index == data.max_index
        coord_val == data.p_centroid[face_axis_index + 1]
        is_min == is_min_bound_face(coord_val, minb[face_axis_index + 1])
        is_max == is_max_bound_face(coord_val, maxb[face_axis_index + 1])
    IN  IF face_axis_index = ax
        THEN IF is_min
             THEN <<IF positive THEN "inlet" ELSE "outlet",
                    MinLabel(face_axis_index)>>
             ELSE IF is_max
                  THEN <<IF positive THEN "inlet" ELSE "outlet",
                         MaxLabel(face_axis_index)>>
                  ELSE <<"wall", "wall">>
        ELSE IF is_min \/ is_max
             THEN <<"skip", "skip">>
             ELSE <<"wall", "wall">>

\* Lines 16-63: the (role, face_label_fixed) pair written for one face
ResolveRole(data, ax, positive, minb, maxb) ==
    LET face_axis_index == data.max_index
        coord_val == data.p_centroid[face_axis_index + 1]
        min_bound == minb[face_axis_index + 1]
        max_bound == maxb[face_axis_index + 1]
        is_min == is_min_bound_face(coord_val, min_bound)
        is_max == is_max_bound_face(coord_val, max_bound)
    IN  IF face_axis_index = ax
        THEN IF is_min
             THEN <<IF positive THEN "inlet" ELSE "outlet",
                    MinLabel(face_axis_index)>>
             ELSE IF is_max
                  THEN <<IF positive THEN "outlet" ELSE "inlet",
                         MaxLabel(face_axis_index)>>
                  ELSE <<"wall", "wall">>
        ELSE IF is_min \/ is_max
             THEN <<"skip", "skip">>
             ELSE <<"wall", "wall">>

\* BlockType with the test on the role list inverted
BlockType_Inverted(role) ==
    IF role \in {"inlet", "wall"} THEN "neumann" ELSE "dirichlet"

BlockType(role) == IF role \in {"inlet", "wall"} THEN "dirichlet" ELSE "neumann"

ApplyTo(role) ==
    IF role = "inlet" THEN <<"velocity", "pressure">>
    ELSE IF role = "outlet" THEN <<"pressure">>
    ELSE <<"velocity">>

Comment(role) ==
    IF role = "inlet" THEN "Defines inlet flow parameters for velocity and pressure"
    ELSE IF role = "outlet" THEN "Defines outlet flow behavior with pressure gradient"
    ELSE IF role = "wall" THEN "Defines near-wall flow parameters with no-slip condition"
    ELSE "Boundary condition defined by flow logic"

ApplyFaces(role, face_label) ==
    IF face_label \in DirectionalLabels THEN <<face_label>> ELSE <<"wall">>

\* Lines 80-114: the block created for the first face of a group
NewBlock(role, face_label, face_id, vel, pres, noslip) ==
    LET base == [role |-> role,
                 type |-> BlockType(role),
                 faces |-> <<face_id>>,
                 apply_to |-> ApplyTo(role),
                 comment |-> Comment(role),
                 apply_faces |-> ApplyFaces(role, face_label)]
    IN  IF role = "inlet"
        THEN base @@ [velocity |-> vel, pressure |-> pres]
        ELSE IF role = "wall"
             THEN base @@ [velocity |-> <<0, 0, 0>>, no_slip |-> noslip]
             ELSE base

\* if debug: print(...)
Logged(lg, dbg, entry) == IF dbg THEN Append(lg, entry) ELSE lg

\* KeyIndex that never finds the key: every face opens a group
KeyIndex_NeverFound(blocks, key) == 0

\* position of group_key in the insertion-ordered dict, 0 if absent
KeyIndex(blocks, key) ==
    IF \E k \in 1..Len(blocks) : blocks[k].key = key
    THEN CHOOSE k \in 1..Len(blocks) : blocks[k].key = key
    ELSE 0

\* list(grouped_blocks.values())
Values(blocks) == [k \in 1..Len(blocks) |-> blocks[k].block]

----------------------------------------------------------------------------
(* Pure parts of generate_external_bc_blocks *)

\* Lines 139-148
ObstacleWallBlock(role, face_id, noslip) ==
    [role |-> role,
     type |-> "dirichlet",
     faces |-> <<face_id>>,
     apply_to |-> <<"velocity">>,
     comment |-> "Obstacle Wall Face with no-slip condition",
     velocity |-> <<0, 0, 0>>,
     no_slip |-> noslip,
     apply_faces |-> <<"wall">>]

\* perpendicular_axes without the filter on the flow axis
perpendicular_axes_NoFilter(ax) ==
    <<"x_min", "x_max", "y_min", "y_max", "z_min", "z_max">>

\* Lines 159-164
perpendicular_axes(ax) ==
    LET all == << <<0, "x_min">>, <<0, "x_max">>, <<1, "y_min">>,
                  <<1, "y_max">>, <<2, "z_min">>, <<2, "z_max">> >>
        keep == SelectSeq(all, LAMBDA e : e[1] # ax)
    IN  [k \in 1..Len(keep) |-> keep[k][2]]

\* inlet_label with the extremes swapped
inlet_label_Swapped(ax, positive) == IF positive THEN MaxLabel(ax) ELSE MinLabel(ax)

inlet_label(ax, positive) == IF positive THEN MinLabel(ax) ELSE MaxLabel(ax)

outlet_label(ax, positive) == IF positive THEN MaxLabel(ax) ELSE MinLabel(ax)

\* Lines 170-179
SynthInletBlock(id, vel, pres, label) ==
    [role |-> "inlet",
     type |-> "dirichlet",
     faces |-> <<id>>,
     apply_to |-> <<"velocity", "pressure">>,
     comment |-> "Synthesized Far-Field Inlet (boundary of the computational box)",
     velocity |-> vel,
     pressure |-> pres,
     apply_faces |-> <<label>>]

\* SynthOutletBlock reusing the id of the synthesized inlet
SynthOutletBlock_SameId(id, label) ==
    [role |-> "outlet",
     type |-> "neumann",
     faces |-> <<id + 1>>,
     apply_to |-> <<"pressure">>,
     comment |-> "Synthesized Far-Field Outlet (boundary of the computational box)",
     apply_faces |-> <<label>>]

\* Lines 186-193
SynthOutletBlock(id, label) ==
    [role |-> "outlet",
     type |-> "neumann",
     faces |-> <<id>>,
     apply_to |-> <<"pressure">>,
     comment |-> "Synthesized Far-Field Outlet (boundary of the computational box)",
     apply_faces |-> <<label>>]

\* Lines 200-209
SynthWallBlock(id, noslip, label) ==
    [role |-> "wall",
     type |-> "dirichlet",
     faces |-> <<id>>,
     apply_to |-> <<"velocity">>,
     comment |-> "Synthesized Far-Field Wall",
     velocity |-> <<0, 0, 0>>,
     no_slip |-> noslip,
     apply_faces |-> <<label>>]

----------------------------------------------------------------------------
(* Flow-axis detection of the pipeline entry point *)

\* argmax_i |velocity[i]|, first maximum wins; 0-based
FlowAxis(v) ==
    IF Abs(v[1]) >= Abs(v[2]) /\ Abs(v[1]) >= Abs(v[3]) THEN 0
    ELSE IF Abs(v[2]) >= Abs(v[3]) THEN 1
    ELSE 2

FlowSign(v) == v[FlowAxis(v) + 1] > 0

\* IsZeroVector testing the magnitude with a strict comparison
IsZeroVector_Strict(v) == Abs(v[1]) + Abs(v[2]) + Abs(v[3]) < 0

IsZeroVector(v) == v[1] = 0 /\ v[2] = 0 /\ v[3] = 0

ZeroVelocityMessage == "Initial velocity vector cannot be zero."

----------------------------------------------------------------------------
(* A stage that is not running in the specification at hand *)

InletIdle ==
    /\ boundary_config = <<>>
    /\ given_config = <<>>
    /\ inlet_velocity = <<0, 0, 0>>
    /\ inlet_pressure = 0
    /\ injections = 0

GeneratorsIdle ==
    /\ pc = "idle"
    /\ flow_region = "internal"
    /\ velocity = <<1, 0, 0>>
    /\ pressure = PRESSURE
    /\ no_slip = TRUE
    /\ surfaces = <<>>
    /\ face_geometry_data = <<>>
    /\ face_roles = <<>>
    /\ min_bounds = <<0, 0, 0>>
    /\ max_bounds = <<2, 2, 2>>
    /\ axis_index = 0
    /\ is_positive_flow = TRUE
    /\ todo = {}
    /\ idx = 1
    /\ grouped_blocks = <<>>
    /\ boundary_conditions = <<>>
    /\ synthesized_id = 0
    /\ perp_todo = <<>>
    /\ error = ""
    /\ debug = FALSE
    /\ log = <<>>
    /\ given_roles = <<>>

\* directional_thresholds default, in hundredths
THRESHOLD == 85

\* thresholds.get(label[0], 0.95), in hundredths
DEFAULT_THRESHOLD == 95

\* PCA(n_components=3)
PCA_COMPONENTS == 3

\* cluster_faces(faces, n_clusters=6)
DEFAULT_CLUSTERS == 6

ClassifyIdle ==
    /\ c_pc = "idle"
    /\ c_entry = "classify_faces"
    /\ faces = <<>>
    /\ thresholds = <<>>
    /\ strict_face_validation = FALSE
    /\ enable_clustering = TRUE
    /\ n_clusters = DEFAULT_CLUSTERS
    /\ face_idx = 1
    /\ all_face_ids = <<>>
    /\ directional_faces = <<>>
    /\ ambiguous_faces = <<>>
    /\ cluster_input = <<>>
    /\ fallback_clusters = <<>>
    /\ result = <<>>
    /\ c_error = ""

RunnerIdle ==
    /\ r_pc = "idle"
    /\ step_file = "absent"
    /\ gmsh_fault = "none"
    /\ classify_outcome = "ok"
    /\ classified = <<>>
    /\ block_valid = TRUE
    /\ flow_data = "absent"
    /\ output_arg = FALSE
    /\ bbox_dims = <<2, 2, 2>>
    /\ volume_count = 1
    /\ geometry_type = ""
    /\ gmsh_initialized = 0
    /\ gmsh_finalized = 0
    /\ boundary_block = <<>>
    /\ validated = FALSE
    /\ written = 0
    /\ r_error = ""

OverrideIdle ==
    /\ ov_pc = "idle"
    /\ override_file = [state |-> "missing", content |-> <<>>]
    /\ boundary_data = <<>>
    /\ overrides = <<>>
    /\ updated = <<>>
    /\ ov_todo = {}
    /\ ov_pass = 1
    /\ ov_first = <<>>
    /\ ov_error = ""

----------------------------------------------------------------------------
(* Initial states: one call with its arguments, nothing executed yet *)

Init ==
    /\ pc = "start"
    /\ flow_region \in {"internal", "external"}
    /\ velocity \in Velocities
    /\ pressure = PRESSURE
    /\ no_slip = TRUE
    /\ \E m \in Extents :
          /\ min_bounds = <<0, 0, 0>>
          /\ max_bounds = <<m, m, m>>
          /\ IF flow_region = "internal"
             THEN /\ surfaces \in SeqsUpTo(Tags(FaceIds), MaxFaces)
                  /\ face_geometry_data \in
                        PartialFns(FaceIdsOf(surfaces), GeometryOptions(m))
                  /\ face_roles \in
                        PartialFns(FaceIdsOf(surfaces) \ DOMAIN face_geometry_data,
                                   IncomingRoles)
             ELSE /\ m = 2
                  /\ surfaces \in SeqsUpTo(Tags(ExternalFaceIds), MaxFaces)
                  /\ face_geometry_data = <<>>
                  /\ face_roles \in PartialFns(FaceIdsOf(surfaces), IncomingRoles)
    /\ axis_index = 0
    /\ is_positive_flow = TRUE
    /\ todo = {}
    /\ idx = 1
    /\ grouped_blocks = <<>>
    /\ boundary_conditions = <<>>
    /\ synthesized_id = 0
    /\ perp_todo = <<>>
    /\ error = ""
    /\ debug = FALSE
    /\ log = <<>>
    /\ given_roles = face_roles
    /\ OverrideIdle
    /\ ClassifyIdle
    /\ RunnerIdle
    /\ InletIdle

----------------------------------------------------------------------------
(* generate_boundary_conditions: validation and dispatch *)

RaiseZeroVelocity ==
    /\ pc = "start"
    /\ IsZeroVector(velocity)
    /\ pc' = "raised"
    /\ error' = ZeroVelocityMessage
    /\ UNCHANGED <<inputs, log, face_roles, axis_index, is_positive_flow, todo, idx,
                   grouped_blocks, boundary_conditions, synthesized_id, perp_todo>>
    /\ UNCHANGED not_g

CallInternal ==
    /\ pc = "start"
    /\ ~IsZeroVector(velocity)
    /\ flow_region = "internal"
    /\ axis_index' = FlowAxis(velocity)
    /\ is_positive_flow' = FlowSign(velocity)
    /\ todo' = DOMAIN face_geometry_data
    /\ idx' = 1
    /\ pc' = "internal"
    /\ UNCHANGED <<inputs, log, face_roles, grouped_blocks, boundary_conditions,
                   synthesized_id, perp_todo, error>>
    /\ UNCHANGED not_g

CallExternal ==
    /\ pc = "start"
    /\ ~IsZeroVector(velocity)
    /\ flow_region = "external"
    /\ axis_index' = FlowAxis(velocity)
    /\ is_positive_flow' = FlowSign(velocity)
    /\ idx' = 1
    /\ pc' = "external"
    /\ UNCHANGED <<inputs, log, face_roles, todo, grouped_blocks, boundary_conditions,
                   synthesized_id, perp_todo, error>>
    /\ UNCHANGED not_g

----------------------------------------------------------------------------
(* generate_internal_bc_blocks *)

\* Loop 1 (lines 15-63), one iteration
InternalResolveStep ==
    /\ pc = "internal"
    /\ todo # {}
    /\ \E face_id \in todo :
          /\ face_roles' = Put(face_roles, face_id,
                               ResolveRole(face_geometry_data[face_id], axis_index,
                                           is_positive_flow, min_bounds, max_bounds))
          /\ todo' = todo \ {face_id}
    /\ UNCHANGED <<pc, inputs, log, axis_index, is_positive_flow, idx, grouped_blocks,
                   boundary_conditions, synthesized_id, perp_todo, error>>
    /\ UNCHANGED not_g

\* Loop 2 (lines 67-75), an iteration that skips the face
InternalSkipFace ==
    /\ pc = "internal"
    /\ todo = {}
    /\ idx <= Len(surfaces)
    /\ LET face_id == surfaces[idx][2]
           rl == Get(face_roles, face_id, <<"wall", "wall">>)
       IN  rl[1] = "skip"
    /\ log' = Logged(log, debug, <<"skip", surfaces[idx][2]>>)
    /\ idx' = idx + 1
    /\ UNCHANGED <<pc, inputs, face_roles, axis_index, is_positive_flow, todo,
                   grouped_blocks, boundary_conditions, synthesized_id, perp_todo,
                   error>>
    /\ UNCHANGED not_g

\* InternalNewBlock without waiting for loop 1 to end
InternalNewBlock_Early ==
    /\ pc = "internal"
    /\ idx <= Len(surfaces)
    /\ LET face_id == surfaces[idx][2]
           rl == Get(face_roles, face_id, <<"wall", "wall">>)
       IN  /\ rl[1] # "skip"
           /\ grouped_blocks' =
                 Append(grouped_blocks,
                        [key |-> rl,
                         block |-> NewBlock(rl[1], rl[2], face_id, velocity,
                                            pressure, no_slip)])
    /\ idx' = idx + 1
    /\ UNCHANGED <<pc, inputs, log, face_roles, axis_index, is_positive_flow,
                   todo, boundary_conditions, synthesized_id, perp_todo, error>>
    /\ UNCHANGED not_g

\* Loop 2 (lines 77-115), an iteration that opens a new group
InternalNewBlock ==
    /\ pc = "internal"
    /\ todo = {}
    /\ idx <= Len(surfaces)
    /\ LET face_id == surfaces[idx][2]
           rl == Get(face_roles, face_id, <<"wall", "wall">>)
       IN  /\ rl[1] # "skip"
           /\ KeyIndex(grouped_blocks, rl) = 0
           /\ grouped_blocks' =
                 Append(grouped_blocks,
                        [key |-> rl,
                         block |-> NewBlock(rl[1], rl[2], face_id, velocity,
                                            pressure, no_slip)])
    /\ idx' = idx + 1
    /\ UNCHANGED <<pc, inputs, log, face_roles, axis_index, is_positive_flow, todo,
                   boundary_conditions, synthesized_id, perp_todo, error>>
    /\ UNCHANGED not_g

\* Loop 2 (lines 117-118), an iteration that extends an existing group
InternalAppendFace ==
    /\ pc = "internal"
    /\ todo = {}
    /\ idx <= Len(surfaces)
    /\ LET face_id == surfaces[idx][2]
           rl == Get(face_roles, face_id, <<"wall", "wall">>)
           k == KeyIndex(grouped_blocks, rl)
       IN  /\ rl[1] # "skip"
           /\ k # 0
           /\ grouped_blocks' =
                 [grouped_blocks EXCEPT ![k].block.faces = Append(@, face_id)]
    /\ log' = Logged(log, debug, <<"grouped", surfaces[idx][2]>>)
    /\ idx' = idx + 1
    /\ UNCHANGED <<pc, inputs, face_roles, axis_index, is_positive_flow, todo,
                   boundary_conditions, synthesized_id, perp_todo, error>>
    /\ UNCHANGED not_g

\* Lines 122-123
InternalReturn ==
    /\ pc = "internal"
    /\ todo = {}
    /\ idx > Len(surfaces)
    /\ boundary_conditions' = boundary_conditions \o Values(grouped_blocks)
    /\ pc' = "done"
    /\ UNCHANGED <<inputs, log, face_roles, axis_index, is_positive_flow, todo, idx,
                   grouped_blocks, synthesized_id, perp_todo, error>>
    /\ UNCHANGED not_g

----------------------------------------------------------------------------
(* generate_external_bc_blocks *)

\* Lines 132-136, an iteration that passes over the face
ExternalSkipFace ==
    /\ pc = "external"
    /\ idx <= Len(surfaces)
    /\ LET face_id == surfaces[idx][2]
           rl == Get(face_roles, face_id, <<"wall", "wall">>)
       IN  rl[1] # "wall"
    /\ idx' = idx + 1
    /\ UNCHANGED <<pc, inputs, log, face_roles, axis_index, is_positive_flow, todo,
                   grouped_blocks, boundary_conditions, synthesized_id, perp_todo,
                   error>>
    /\ UNCHANGED not_g

\* Lines 132-149, an iteration that emits an obstacle wall block
ExternalWallBlock ==
    /\ pc = "external"
    /\ idx <= Len(surfaces)
    /\ LET face_id == surfaces[idx][2]
           rl == Get(face_roles, face_id, <<"wall", "wall">>)
       IN  /\ rl[1] = "wall"
           /\ boundary_conditions' =
                 Append(boundary_conditions,
                        ObstacleWallBlock(rl[1], face_id, no_slip))
    /\ idx' = idx + 1
    /\ UNCHANGED <<pc, inputs, log, face_roles, axis_index, is_positive_flow, todo,
                   grouped_blocks, synthesized_id, perp_todo, error>>
    /\ UNCHANGED not_g

\* Lines 156-182
ExternalSynthInlet ==
    /\ pc = "external"
    /\ idx > Len(surfaces)
    /\ boundary_conditions' =
          Append(boundary_conditions,
                 SynthInletBlock(-1, velocity, pressure,
                                 inlet_label(axis_index, is_positive_flow)))
    /\ synthesized_id' = -1 - 1
    /\ perp_todo' = perpendicular_axes(axis_index)
    /\ pc' = "synth_outlet"
    /\ log' = Logged(Logged(log, debug, <<"synthesizing", 0>>), debug,
                     <<"inlet", -1>>)
    /\ UNCHANGED <<inputs, face_roles, axis_index, is_positive_flow, todo, idx,
                   grouped_blocks, error>>
    /\ UNCHANGED not_g

\* Lines 185-196
ExternalSynthOutlet ==
    /\ pc = "synth_outlet"
    /\ boundary_conditions' =
          Append(boundary_conditions,
                 SynthOutletBlock(synthesized_id,
                                  outlet_label(axis_index, is_positive_flow)))
    /\ synthesized_id' = synthesized_id - 1
    /\ pc' = "synth_walls"
    /\ log' = Logged(log, debug, <<"outlet", synthesized_id>>)
    /\ UNCHANGED <<inputs, face_roles, axis_index, is_positive_flow, todo, idx,
                   grouped_blocks, perp_todo, error>>
    /\ UNCHANGED not_g

\* Lines 199-212, one iteration
ExternalSynthWall ==
    /\ pc = "synth_walls"
    /\ perp_todo # <<>>
    /\ boundary_conditions' =
          Append(boundary_conditions,
                 SynthWallBlock(synthesized_id, no_slip, Head(perp_todo)))
    /\ synthesized_id' = synthesized_id - 1
    /\ perp_todo' = Tail(perp_todo)
    /\ log' = Logged(log, debug, <<"wall", synthesized_id>>)
    /\ UNCHANGED <<pc, inputs, face_roles, axis_index, is_positive_flow, todo, idx,
                   grouped_blocks, error>>
    /\ UNCHANGED not_g

\* Line 214
ExternalReturn ==
    /\ pc = "synth_walls"
    /\ perp_todo = <<>>
    /\ pc' = "done"
    /\ UNCHANGED <<inputs, log, face_roles, axis_index, is_positive_flow, todo, idx,
                   grouped_blocks, boundary_conditions, synthesized_id, perp_todo,
                   error>>
    /\ UNCHANGED not_g

----------------------------------------------------------------------------

Next ==
    \/ RaiseZeroVelocity
    \/ CallInternal
    \/ CallExternal
    \/ InternalResolveStep
    \/ InternalSkipFace
    \/ InternalNewBlock
    \/ InternalAppendFace
    \/ InternalReturn
    \/ ExternalSkipFace
    \/ ExternalWallBlock
    \/ ExternalSynthInlet
    \/ ExternalSynthOutlet
    \/ ExternalSynthWall
    \/ ExternalReturn

Spec == Init /\ [][Next]_vars

----------------------------------------------------------------------------
(* Vocabulary of the properties *)

\* Faces given to internal-flow role resolution
GivenFaces == DOMAIN face_geometry_data

\* Faces loop 1 has already visited
ResolvedFaces == GivenFaces \ todo

InInternal == flow_region = "internal" /\ pc \in {"internal", "done"}

InternalResolved == InInternal /\ todo = {}

ExternalDone == flow_region = "external" /\ pc = "done"

\* Blocks created so far
EmittedBlocks ==
    IF pc = "done" THEN boundary_conditions
    ELSE boundary_conditions \o Values(grouped_blocks)

RoleSet(r) == {f \in GivenFaces \cap DOMAIN face_roles : face_roles[f][1] = r}

\* Coordinate of a face's centroid on its dominant normal axis
DominantCoord(f) ==
    face_geometry_data[f].p_centroid[face_geometry_data[f].max_index + 1]

\* The centroid lies on the min / max bounding plane of its dominant axis.
\* The tolerance of the specification (1e-4 to 1e-6) is below the resolution
\* of the integer coordinates, so "within tolerance" is equality here.
OnMinPlane(f) == DominantCoord(f) = min_bounds[face_geometry_data[f].max_index + 1]

OnMaxPlane(f) == DominantCoord(f) = max_bounds[face_geometry_data[f].max_index + 1]

DistinctNonNegativeIds ==
    /\ \A k \in 1..Len(surfaces) : surfaces[k][2] >= 0
    /\ \A j, k \in 1..Len(surfaces) : j # k => surfaces[j][2] # surfaces[k][2]

BlocksWithRole(blocks, r) == {k \in 1..Len(blocks) : blocks[k].role = r}

\* Index of the first synthesized block in the external output
SynthBase == Len(boundary_conditions) - 6

----------------------------------------------------------------------------
(* C1: conservation.  Once internal-flow role resolution has visited a set  *)
(* of faces, every one of them has exactly one role among inlet, outlet,    *)
(* wall and skip: the four role sets are pairwise disjoint and together     *)
(* contain all N faces.                                                     *)
C1_Conservation ==
    InInternal =>
        /\ \A f \in ResolvedFaces :
              f \in DOMAIN face_roles /\ face_roles[f][1] \in Roles
        /\ UNION {RoleSet(r) \cap ResolvedFaces : r \in Roles} = ResolvedFaces
        /\ \A r1, r2 \in Roles : r1 # r2 => RoleSet(r1) \cap RoleSet(r2) = {}
        /\ Cardinality(RoleSet("inlet") \cap ResolvedFaces)
             + Cardinality(RoleSet("outlet") \cap ResolvedFaces)
             + Cardinality(RoleSet("wall") \cap ResolvedFaces)
             + Cardinality(RoleSet("skip") \cap ResolvedFaces)
           = Cardinality(ResolvedFaces)

C1_Witness ==
    /\ InternalResolved
    /\ Cardinality(GivenFaces) = 2
    /\ RoleSet("inlet") # {}
    /\ RoleSet("skip") # {}

(* C2: within one output no face id appears in the faces list of two       *)
(* different blocks, whenever the real surface ids are distinct and         *)
(* non-negative.                                                            *)
C2_NoFaceInTwoBlocks ==
    DistinctNonNegativeIds =>
        \A a, b \in 1..Len(EmittedBlocks) :
            a # b => Range(EmittedBlocks[a].faces)
                        \cap Range(EmittedBlocks[b].faces) = {}

C2_Witness ==
    /\ ExternalDone
    /\ DistinctNonNegativeIds
    /\ Len(boundary_conditions) = 8

(* C3: Scenario A.  Internal flow, positive flow along x: a face whose     *)
(* dominant normal axis is x and whose centroid lies on the x_min plane is  *)
(* inlet with label x_min, the face on the x_max plane is outlet with       *)
(* label x_max, and with both present the output has one inlet block and    *)
(* one outlet block.                                                        *)
C3_ScenarioA ==
    (InInternal /\ axis_index = 0 /\ is_positive_flow) =>
        /\ \A f \in ResolvedFaces :
              face_geometry_data[f].max_index = 0 =>
                 /\ OnMinPlane(f) => face_roles[f] = <<"inlet", "x_min">>
                 /\ OnMaxPlane(f) => face_roles[f] = <<"outlet", "x_max">>
        /\ ( /\ pc = "done"
             /\ \E f \in GivenFaces :
                   face_geometry_data[f].max_index = 0 /\ OnMinPlane(f)
             /\ \E f \in GivenFaces :
                   face_geometry_data[f].max_index = 0 /\ OnMaxPlane(f) )
           => /\ Cardinality(BlocksWithRole(boundary_conditions, "inlet")) = 1
              /\ Cardinality(BlocksWithRole(boundary_conditions, "outlet")) = 1

(* C4: in internal flow a face whose centroid is not on a bounding plane   *)
(* of its dominant axis is wall with label wall, whether or not its         *)
(* dominant axis is the flow axis.                                          *)
C4_OffPlaneIsWall ==
    InInternal =>
        \A f \in ResolvedFaces :
            (~OnMinPlane(f) /\ ~OnMaxPlane(f)) => face_roles[f] = <<"wall", "wall">>

(* C5: in internal flow a face whose dominant axis differs from the flow   *)
(* axis and whose centroid lies on a bounding plane gets role skip, and no  *)
(* face with role skip appears in the faces list of any block.              *)
C5_PerpendicularOnPlaneSkipped ==
    InInternal =>
        /\ \A f \in ResolvedFaces :
              ( /\ face_geometry_data[f].max_index # axis_index
                /\ (OnMinPlane(f) \/ OnMaxPlane(f)) )
              => face_roles[f][1] = "skip"
        /\ todo = {} =>
              \A f \in DOMAIN face_roles :
                  face_roles[f][1] = "skip" =>
                      \A k \in 1..Len(EmittedBlocks) :
                          f \notin Range(EmittedBlocks[k].faces)

C5_Witness ==
    /\ InInternal
    /\ pc = "done"
    /\ boundary_conditions # <<>>
    /\ \E k \in 1..Len(surfaces) :
          LET f == surfaces[k][2] IN
              /\ f \in GivenFaces
              /\ face_geometry_data[f].max_index # axis_index
              /\ OnMinPlane(f)
              /\ face_roles[f][1] = "skip"

(* C6: the external output ends with exactly 6 synthesized far-field       *)
(* blocks of one face each: an inlet, an outlet and four walls, with ids    *)
(* -1 down to -6 in emission order; every inlet or outlet block of the      *)
(* output is one of them.                                                   *)
C6_SixSynthesizedBlocks ==
    ExternalDone =>
        /\ SynthBase >= 0
        /\ \A k \in 1..6 : boundary_conditions[SynthBase + k].faces = <<-k>>
        /\ boundary_conditions[SynthBase + 1].role = "inlet"
        /\ boundary_conditions[SynthBase + 2].role = "outlet"
        /\ \A k \in 3..6 : boundary_conditions[SynthBase + k].role = "wall"
        /\ \A k \in 1..SynthBase :
              /\ boundary_conditions[k].role \notin {"inlet", "outlet"}
              /\ boundary_conditions[k].comment = "Obstacle Wall Face with no-slip condition"
        /\ Cardinality(BlocksWithRole(boundary_conditions, "inlet")) = 1
        /\ Cardinality(BlocksWithRole(boundary_conditions, "outlet")) = 1

C6_Witness ==
    /\ ExternalDone
    /\ SynthBase = 1
    /\ Len(surfaces) = 2
    /\ \E k \in 1..2 : Get(face_roles, surfaces[k][2], <<"wall", "wall">>)[1] = "inlet"

(* C7: for external flow every real surface face yields exactly one        *)
(* one-face wall block labelled wall, whatever role face_roles records for  *)
(* it, so N real faces give N wall blocks followed by the 6 synthesized     *)
(* blocks.                                                                  *)
C7_EveryRealFaceIsWall ==
    ExternalDone =>
        /\ Len(boundary_conditions) = Len(surfaces) + 6
        /\ \A k \in 1..Len(surfaces) :
              /\ k <= Len(boundary_conditions)
              /\ boundary_conditions[k].role = "wall"
              /\ boundary_conditions[k].faces = <<surfaces[k][2]>>
              /\ boundary_conditions[k].apply_faces = <<"wall">>

(* C8: for external flow along axis a the synthesized inlet is labelled    *)
(* a_min for a positive flow sign and a_max otherwise, the synthesized      *)
(* outlet carries the opposite extreme, and the four synthesized walls      *)
(* carry the four labels of the two other axes, each once; the six labels   *)
(* are exactly the six bounding-box labels.                                 *)
C8_SynthesizedLabels ==
    ExternalDone =>
        LET lab(k) == boundary_conditions[SynthBase + k].apply_faces
            a == axis_index
            positive == is_positive_flow
        IN  /\ lab(1) = <<IF positive THEN MinLabel(a) ELSE MaxLabel(a)>>
            /\ lab(2) = <<IF positive THEN MaxLabel(a) ELSE MinLabel(a)>>
            /\ \A k \in 1..6 : Len(lab(k)) = 1
            /\ {lab(k)[1] : k \in 3..6}
                 = DirectionalLabels \ {MinLabel(a), MaxLabel(a)}
            /\ {lab(k)[1] : k \in 1..6} = DirectionalLabels

C8_Witness ==
    /\ ExternalDone
    /\ axis_index = 1
    /\ ~is_positive_flow
    /\ boundary_conditions[SynthBase + 1].apply_faces = <<"y_max">>

(* C9: in every block emitted for internal or external flow the role is    *)
(* inlet, outlet or wall, and type and apply_to are determined by it:       *)
(* inlet is dirichlet on velocity and pressure, outlet is neumann on        *)
(* pressure, wall is dirichlet on velocity.                                 *)
C9_TypeAndApplyToByRole ==
    \A k \in 1..Len(EmittedBlocks) :
        LET b == EmittedBlocks[k] IN
            /\ b.role \in {"inlet", "outlet", "wall"}
            /\ b.role = "inlet" =>
                  b.type = "dirichlet" /\ b.apply_to = <<"velocity", "pressure">>
            /\ b.role = "outlet" =>
                  b.type = "neumann" /\ b.apply_to = <<"pressure">>
            /\ b.role = "wall" =>
                  b.type = "dirichlet" /\ b.apply_to = <<"velocity">>

C9_Witness ==
    /\ InInternal
    /\ pc = "done"
    /\ BlocksWithRole(boundary_conditions, "outlet") # {}
    /\ BlocksWithRole(boundary_conditions, "wall") # {}

(* C10: Scenario B.  With a zero velocity vector the call fails with        *)
(* "Initial velocity vector cannot be zero." before any face is processed,  *)
(* for both flow regions, and no block is produced.                         *)
C10_ZeroVelocityFails ==
    (velocity = <<0, 0, 0>> /\ pc # "start") =>
        /\ pc = "raised"
        /\ error = "Initial velocity vector cannot be zero."
        /\ todo = {}
        /\ idx = 1
        /\ grouped_blocks = <<>>
        /\ boundary_conditions = <<>>
        /\ synthesized_id = 0

C10_Witness ==
    /\ pc = "raised"
    /\ flow_region = "external"
    /\ Len(surfaces) = 2

----------------------------------------------------------------------------
(* Override loading and merging: src/src/override_loader.py                 *)
(*                                                                          *)
(* A Python value is a record [kind, ints, strs]: a list keeps its integer  *)
(* elements and its string elements apart, a scalar has neither.  A dict is *)
(* a function from its keys to such values.                                 *)

MaxOverrideLen == 2

IntList(s) == [kind |-> "list", ints |-> s, strs |-> <<>>]

StrList(s) == [kind |-> "list", ints |-> <<>>, strs |-> s]

Scalar(k) == [kind |-> k, ints |-> <<>>, strs |-> <<>>]

\* isinstance(data, dict)
IsDict(v) == "kind" \notin DOMAIN v

\* isinstance(ids, list)
IsList(v) == v.kind = "list"

\* truth value of a list: it is not empty
Truthy(v) == Len(v.ints) + Len(v.strs) > 0

\* sorted(...) of a set of integers
RECURSIVE SortedInts(_)
SortedInts(S) ==
    IF S = {} THEN <<>>
    ELSE LET m == CHOOSE x \in S : \A y \in S : x <= y
         IN  <<m>> \o SortedInts(S \ {m})

\* Python's ordering of the key strings that occur
KeyOrder == <<"apply_faces", "custom_wall", "faces", "x_min">>

\* sorted(...) of a set of key strings
SortedStrs(S) == SelectSeq(KeyOrder, LAMBDA k : k \in S)

BookkeepingKeys == {"faces", "apply_faces"}

OverrideLabels == {"x_min", "custom_wall"}

AutoLists == {<<>>, <<101>>, <<101, 102>>}

OverrideIds == {101, 501}

OverrideValues ==
    {IntList(s) : s \in SeqsUpTo(OverrideIds, MaxOverrideLen)}
        \cup {Scalar("str"), Scalar("none")}

\* the keys of d that hold a non-empty list
NonEmptyKeys(d) == {k \in DOMAIN d : IsList(d[k]) /\ Truthy(d[k])}

\* the integers / the strings found in the list values of d
AllInts(d) == UNION {Range(d[k].ints) : k \in {x \in DOMAIN d : IsList(d[x])}}

AllStrs(d) == UNION {Range(d[k].strs) : k \in {x \in DOMAIN d : IsList(d[x])}}

\* A classification carrying its own faces / apply_faces entries
WithBookkeeping(d) ==
    [k \in DOMAIN d \cup BookkeepingKeys |->
        IF k = "faces" THEN IntList(SortedInts(AllInts(d)))
        ELSE IF k = "apply_faces" THEN StrList(SortedStrs(NonEmptyKeys(d)))
        ELSE d[k]]

AutoClassifications ==
    LET plain == PartialFns(OverrideLabels, {IntList(s) : s \in AutoLists})
    IN  plain \cup {WithBookkeeping(d) : d \in plain}

\* What yaml.safe_load can hand back: a mapping or some other document
Documents ==
    PartialFns(OverrideLabels, OverrideValues)
        \cup {IntList(<<501>>), Scalar("str"), Scalar("none")}

OverrideFiles ==
    {[state |-> "missing", content |-> <<>>],
     [state |-> "malformed", content |-> <<>>]}
        \cup {[state |-> "parsed", content |-> d] : d \in Documents}

\* return data if isinstance(data, dict) else {}
DictOrEmpty_Unchecked(data) == data

DictOrEmpty(data) == IF IsDict(data) THEN data ELSE <<>>

\* merged_ids = sorted(list(existing_ids.union(override_ids)))
MergedIds(d, label, face_ids) ==
    IntList(SortedInts(Range(Get(d, label, IntList(<<>>)).ints)
                          \cup Range(face_ids.ints)))

\* updated["apply_faces"] = sorted([label for label, ids in updated.items() ...])
RebuiltApplyFaces(d) == StrList(SortedStrs(NonEmptyKeys(d)))

\* sorted(list(all_ids)) compares an int with a str
MixedIds(d) == AllInts(d) # {} /\ AllStrs(d) # {}

\* updated["faces"] = sorted(list(all_ids))
RebuiltFaces(d) ==
    [kind |-> "list", ints |-> SortedInts(AllInts(d)),
     strs |-> SortedStrs(AllStrs(d))]

OverrideInit ==
    /\ GeneratorsIdle
    /\ ClassifyIdle
    /\ RunnerIdle
    /\ InletIdle
    /\ ov_pc = "load"
    /\ override_file \in OverrideFiles
    /\ boundary_data \in AutoClassifications
    /\ overrides = <<>>
    /\ updated = <<>>
    /\ ov_todo = {}
    /\ ov_pass = 1
    /\ ov_first = <<>>
    /\ ov_error = ""

LoadMissingFile ==
    /\ ov_pc = "load"
    /\ override_file.state = "missing"
    /\ overrides' = <<>>
    /\ ov_pc' = "apply"
    /\ UNCHANGED <<override_file, boundary_data, updated, ov_todo, ov_pass,
                   ov_first, ov_error>>
    /\ UNCHANGED not_o

LoadYamlError ==
    /\ ov_pc = "load"
    /\ override_file.state = "malformed"
    /\ overrides' = <<>>
    /\ ov_pc' = "apply"
    /\ UNCHANGED <<override_file, boundary_data, updated, ov_todo, ov_pass,
                   ov_first, ov_error>>
    /\ UNCHANGED not_o

LoadDocument ==
    /\ ov_pc = "load"
    /\ override_file.state = "parsed"
    /\ overrides' = DictOrEmpty(override_file.content)
    /\ ov_pc' = "apply"
    /\ UNCHANGED <<override_file, boundary_data, updated, ov_todo, ov_pass,
                   ov_first, ov_error>>
    /\ UNCHANGED not_o

ApplyCopy ==
    /\ ov_pc = "apply"
    /\ IsDict(overrides)
    /\ updated' = boundary_data
    /\ ov_todo' = DOMAIN overrides
    /\ ov_pc' = "merge"
    /\ UNCHANGED <<override_file, boundary_data, overrides, ov_pass, ov_first,
                   ov_error>>
    /\ UNCHANGED not_o

MergeSkipInvalid ==
    /\ ov_pc = "merge"
    /\ \E label \in ov_todo :
          /\ ~IsList(overrides[label])
          /\ ov_todo' = ov_todo \ {label}
    /\ UNCHANGED <<ov_pc, override_file, boundary_data, overrides, updated,
                   ov_pass, ov_first, ov_error>>
    /\ UNCHANGED not_o

MergeLabel ==
    /\ ov_pc = "merge"
    /\ \E label \in ov_todo :
          /\ IsList(overrides[label])
          /\ updated' = Put(updated, label,
                            MergedIds(updated, label, overrides[label]))
          /\ ov_todo' = ov_todo \ {label}
    /\ UNCHANGED <<ov_pc, override_file, boundary_data, overrides, ov_pass,
                   ov_first, ov_error>>
    /\ UNCHANGED not_o

RebuildApplyFaces ==
    /\ ov_pc = "merge"
    /\ ov_todo = {}
    /\ updated' = Put(updated, "apply_faces", RebuiltApplyFaces(updated))
    /\ ov_pc' = "faces"
    /\ UNCHANGED <<override_file, boundary_data, overrides, ov_todo, ov_pass,
                   ov_first, ov_error>>
    /\ UNCHANGED not_o

RebuildFaces ==
    /\ ov_pc = "faces"
    /\ ~MixedIds(updated)
    /\ updated' = Put(updated, "faces", RebuiltFaces(updated))
    /\ ov_pc' = "done"
    /\ UNCHANGED <<override_file, boundary_data, overrides, ov_todo, ov_pass,
                   ov_first, ov_error>>
    /\ UNCHANGED not_o

RaiseTypeError ==
    /\ ov_pc = "faces"
    /\ MixedIds(updated)
    /\ ov_error' = "TypeError"
    /\ ov_pc' = "raised"
    /\ UNCHANGED <<override_file, boundary_data, overrides, updated, ov_todo,
                   ov_pass, ov_first>>
    /\ UNCHANGED not_o

\* apply_overrides(apply_overrides(auto, O), O): the second application
ReapplyOverrides ==
    /\ ov_pc = "done"
    /\ ov_pass = 1
    /\ ov_first' = updated
    /\ boundary_data' = updated
    /\ ov_pass' = 2
    /\ ov_pc' = "apply"
    /\ UNCHANGED <<override_file, overrides, updated, ov_todo, ov_error>>
    /\ UNCHANGED not_o

OverrideNext ==
    \/ LoadMissingFile
    \/ LoadYamlError
    \/ LoadDocument
    \/ ApplyCopy
    \/ MergeSkipInvalid
    \/ MergeLabel
    \/ RebuildApplyFaces
    \/ RebuildFaces
    \/ RaiseTypeError
    \/ ReapplyOverrides

SpecOverride == OverrideInit /\ [][OverrideNext]_vars

----------------------------------------------------------------------------
(* Vocabulary of the override properties *)

\* the first application has returned or raised
FirstApplyEnded == ov_pass = 1 /\ ov_pc \in {"done", "raised"}

\* the override labels whose value is a list
ListLabels == {l \in DOMAIN overrides : IsList(overrides[l])}

IdsUnder(d, label) ==
    IF label \in DOMAIN d /\ IsList(d[label]) THEN Range(d[label].ints) ELSE {}

\* the labels of a result: its keys other than the two bookkeeping keys
LabelsOf(d) == DOMAIN d \ BookkeepingKeys


(* C11: apply_overrides is a union.  For every override label whose value   *)
(* is a list, the ids the result holds under that label are the automatic   *)
(* ids of the label together with the override ids; no automatic id is      *)
(* dropped.  Scenario C: x_min [101, 102] with override x_min [501] gives   *)
(* x_min {101, 102, 501}.                                                   *)
C11_OverrideIsUnion ==
    (FirstApplyEnded /\ ListLabels # {}) =>
        /\ ov_pc = "done"
        /\ \A l \in ListLabels :
              IdsUnder(updated, l) =
                  IdsUnder(boundary_data, l) \cup Range(overrides[l].ints)

(* C12: after apply_overrides, apply_faces is exactly the sorted set of the *)
(* labels with a non-empty id list and faces is exactly the sorted union of *)
(* the ids of all labels: no bookkeeping key among the labels, no label     *)
(* string among the ids.                                                    *)
C12_BookkeepingRebuilt ==
    (ov_pc \in {"done", "raised"}) =>
        /\ ov_pc = "done"
        /\ updated["apply_faces"] =
              StrList(SortedStrs({l \in LabelsOf(updated) :
                                    IdsUnder(updated, l) # {}}))
        /\ updated["faces"] =
              IntList(SortedInts(UNION {IdsUnder(updated, l) :
                                          l \in LabelsOf(updated)}))

(* C13: apply_overrides is idempotent.  Applying the same overrides to the  *)
(* result of a first application returns that result again: every label,    *)
(* faces and apply_faces are the same.                                      *)
C13_Idempotent ==
    (ov_pc = "raised" \/ (ov_pc = "done" /\ ov_pass = 2)) =>
        /\ ov_pc = "done"
        /\ updated = ov_first

\* the override file is missing, does not parse, or is not a mapping
BadOverrideFile ==
    \/ override_file.state \in {"missing", "malformed"}
    \/ ~IsDict(override_file.content)

----------------------------------------------------------------------------
(* Face classification and fallback clustering:                             *)
(* src/src/bbox_classifier.py, src/src/clustering_engine.py                 *)
(*                                                                          *)
(* Vertices are integer points.  A normal is kept unnormalised, as the      *)
(* cross product of the first two edges; the comparisons of the code are    *)
(* restated on it without division.  A dict whose order matters is a        *)
(* sequence of [key, ids] entries in insertion order.                       *)

MaxClassifyFaces == 3

Cross(a, b) == <<a[2] * b[3] - a[3] * b[2],
                 a[3] * b[1] - a[1] * b[3],
                 a[1] * b[2] - a[2] * b[1]>>

Minus(a, b) == <<a[1] - b[1], a[2] - b[2], a[3] - b[3]>>

Dot(a, b) == a[1] * b[1] + a[2] * b[2] + a[3] * b[3]

\* np.cross(v1 - v0, v2 - v0)
EdgeCross(vertices) ==
    Cross(Minus(vertices[2], vertices[1]), Minus(vertices[3], vertices[1]))

\* compute_face_normal, non-strict: the zero vector for a face without a normal
compute_face_normal(vertices) ==
    IF Len(vertices) < 3 THEN <<0, 0, 0>> ELSE EdgeCross(vertices)

\* axis_map, in its insertion order
AxisMapLabels == <<"x_min", "x_max", "y_min", "y_max", "z_min", "z_max">>

AxisVector(label) ==
    CASE label = "x_min" -> <<-1, 0, 0>>
      [] label = "x_max" -> <<1, 0, 0>>
      [] label = "y_min" -> <<0, -1, 0>>
      [] label = "y_max" -> <<0, 1, 0>>
      [] label = "z_min" -> <<0, 0, -1>>
      [] label = "z_max" -> <<0, 0, 1>>

\* label[0]
AxisLetter(label) ==
    IF label \in {"x_min", "x_max"} THEN "x"
    ELSE IF label \in {"y_min", "y_max"} THEN "y"
    ELSE "z"

\* directional_thresholds of the configuration: the default of line 78, a
\* wide cone on every axis, and a wide cone on x with the others left out
ThresholdConfigs ==
    {[a \in {"x", "y", "z"} |-> THRESHOLD],
     [a \in {"x", "y", "z"} |-> 50],
     [a \in {"x"} |-> 50]}

\* angle_between(normal, axis) <= acos(threshold): cos >= threshold.  A zero
\* normal gives nan, which compares false.
WithinThreshold(normal, label, thr) ==
    LET c == Dot(normal, AxisVector(label))
        threshold == Get(thr, AxisLetter(label), DEFAULT_THRESHOLD)
    IN  /\ c > 0
        /\ 100 * 100 * c * c >= threshold * threshold * Dot(normal, normal)

\* classify_face_direction returning the last matching label of axis_map
classify_face_direction_LastMatch(normal, thr) ==
    IF \E k \in 1..6 : WithinThreshold(normal, AxisMapLabels[k], thr)
    THEN AxisMapLabels[CHOOSE k \in 1..6 :
            /\ WithinThreshold(normal, AxisMapLabels[k], thr)
            /\ \A j \in (k + 1)..6 : ~WithinThreshold(normal, AxisMapLabels[j], thr)]
    ELSE "wall"

\* classify_face_direction: the first matching label of axis_map, else the
\* fallback boundary type
classify_face_direction(normal, thr) ==
    IF \E k \in 1..6 : WithinThreshold(normal, AxisMapLabels[k], thr)
    THEN AxisMapLabels[CHOOSE k \in 1..6 :
            /\ WithinThreshold(normal, AxisMapLabels[k], thr)
            /\ \A j \in 1..(k - 1) : ~WithinThreshold(normal, AxisMapLabels[j], thr)]
    ELSE "wall"

\* extract_normals keeps a face iff it has three vertices and a non-zero normal
HasNormal(face) ==
    /\ Len(face.vertices) >= 3
    /\ EdgeCross(face.vertices) # <<0, 0, 0>>

ValidIds(fs) ==
    LET keep == SelectSeq(fs, HasNormal)
    IN  [k \in 1..Len(keep) |-> keep[k].id]

ClusterKey(label) ==
    <<"cluster_0", "cluster_1", "cluster_2", "cluster_3", "cluster_4",
      "cluster_5">>[label + 1]

\* clustered.setdefault(key, []).append(fid), over the first k faces
RECURSIVE GroupByCluster(_, _, _)
GroupByCluster(ids, labels, k) ==
    IF k = 0 THEN <<>>
    ELSE LET prev == GroupByCluster(ids, labels, k - 1)
             key  == ClusterKey(labels[k])
             i    == KeyIndex(prev, key)
         IN  IF i = 0
             THEN Append(prev, [key |-> key, ids |-> <<ids[k]>>])
             ELSE [prev EXCEPT ![i].ids = Append(@, ids[k])]

\* directional_faces[label].extend(ids) / directional_faces[label] = ids
RECURSIVE MergeClusters(_, _, _)
MergeClusters(df, clusters, k) ==
    IF k = 0 THEN df
    ELSE LET prev == MergeClusters(df, clusters, k - 1)
             i    == KeyIndex(prev, clusters[k].key)
         IN  IF i = 0
             THEN Append(prev, clusters[k])
             ELSE [prev EXCEPT ![i].ids = @ \o clusters[k].ids]

EmptyDirectionalFaces ==
    [k \in 1..6 |-> [key |-> AxisMapLabels[k], ids |-> <<>>]]

\* lines 123-137: the dict classify_faces returns
ClassificationResult(ids, df) ==
    LET used == SelectSeq(df, LAMBDA e : e.ids # <<>>)
    IN  [faces       |-> ids,
         apply_faces |-> [k \in 1..Len(used) |-> used[k].key],
         conditions  |-> [k \in 1..Len(df) |->
                             [key |-> df[k].key, type |-> "wall"]]]

\* Vertex lists: +z, +x, a diagonal normal, collinear points, too few points
VertexLists ==
    {<<<<0, 0, 0>>, <<1, 0, 0>>, <<0, 1, 0>>>>,
     <<<<0, 0, 0>>, <<0, 1, 0>>, <<0, 0, 1>>>>,
     <<<<0, 0, 0>>, <<1, 1, 0>>, <<0, 1, 1>>>>,
     <<<<0, 0, 0>>, <<1, 0, 0>>, <<2, 0, 0>>>>,
     <<<<0, 0, 0>>, <<1, 0, 0>>>>,
     <<>>}

\* Faces with the ids 1, 2, ... in input order
FaceLists ==
    {[k \in 1..Len(vs) |-> [id |-> k, vertices |-> vs[k]]] :
        vs \in SeqsUpTo(VertexLists, MaxClassifyFaces)}

ClassifyInit ==
    /\ GeneratorsIdle
    /\ OverrideIdle
    /\ RunnerIdle
    /\ InletIdle
    /\ c_entry \in {"classify_faces", "cluster_faces"}
    /\ faces \in FaceLists
    /\ IF c_entry = "classify_faces"
       THEN /\ c_pc = "loop"
            /\ thresholds \in ThresholdConfigs
            /\ strict_face_validation \in BOOLEAN
            /\ enable_clustering \in BOOLEAN
            /\ n_clusters = DEFAULT_CLUSTERS
            /\ cluster_input = <<>>
       ELSE /\ c_pc = "cluster"
            /\ thresholds = <<>>
            /\ strict_face_validation = FALSE
            /\ enable_clustering = TRUE
            /\ n_clusters \in {2, 3}
            /\ cluster_input = faces
    /\ face_idx = 1
    /\ all_face_ids = <<>>
    /\ directional_faces = EmptyDirectionalFaces
    /\ ambiguous_faces = <<>>
    /\ fallback_clusters = <<>>
    /\ result = <<>>
    /\ c_error = ""

\* the face the loop of classify_faces is at has enough vertices, or the
\* configuration tolerates that it has not
FaceAccepted ==
    /\ c_pc = "loop"
    /\ face_idx <= Len(faces)
    /\ ~(strict_face_validation /\ Len(faces[face_idx].vertices) < 3)

RaiseInsufficientVertices ==
    /\ c_pc = "loop"
    /\ face_idx <= Len(faces)
    /\ strict_face_validation
    /\ Len(faces[face_idx].vertices) < 3
    /\ c_pc' = "raised"
    /\ c_error' = "ValueError"
    /\ UNCHANGED <<c_entry, faces, thresholds, strict_face_validation, enable_clustering,
                   n_clusters, face_idx, all_face_ids, directional_faces,
                   ambiguous_faces, cluster_input, fallback_clusters, result>>
    /\ UNCHANGED not_c

ClassifyDirectional ==
    /\ FaceAccepted
    /\ LET face  == faces[face_idx]
           label == classify_face_direction(compute_face_normal(face.vertices),
                                            thresholds)
           i     == KeyIndex(directional_faces, label)
       IN  /\ i # 0
           /\ all_face_ids' = Append(all_face_ids, face.id)
           /\ directional_faces' =
                 [directional_faces EXCEPT ![i].ids = Append(@, face.id)]
    /\ face_idx' = face_idx + 1
    /\ UNCHANGED <<c_pc, c_entry, faces, thresholds, strict_face_validation,
                   enable_clustering, n_clusters, ambiguous_faces,
                   cluster_input, fallback_clusters, result, c_error>>
    /\ UNCHANGED not_c

ClassifyAmbiguous ==
    /\ FaceAccepted
    /\ LET face  == faces[face_idx]
           label == classify_face_direction(compute_face_normal(face.vertices),
                                            thresholds)
       IN  /\ KeyIndex(directional_faces, label) = 0
           /\ all_face_ids' = Append(all_face_ids, face.id)
           /\ ambiguous_faces' = Append(ambiguous_faces, face)
    /\ face_idx' = face_idx + 1
    /\ UNCHANGED <<c_pc, c_entry, faces, thresholds, strict_face_validation,
                   enable_clustering, n_clusters, directional_faces,
                   cluster_input, fallback_clusters, result, c_error>>
    /\ UNCHANGED not_c

CallClusterFaces ==
    /\ c_pc = "loop"
    /\ face_idx > Len(faces)
    /\ enable_clustering
    /\ ambiguous_faces # <<>>
    /\ cluster_input' = ambiguous_faces
    /\ c_pc' = "cluster"
    /\ UNCHANGED <<c_entry, faces, thresholds, strict_face_validation, enable_clustering,
                   n_clusters, face_idx, all_face_ids, directional_faces,
                   ambiguous_faces, fallback_clusters, result, c_error>>
    /\ UNCHANGED not_c

ReturnWithoutClusters ==
    /\ c_pc = "loop"
    /\ face_idx > Len(faces)
    /\ ~(enable_clustering /\ ambiguous_faces # <<>>)
    /\ result' = ClassificationResult(all_face_ids, directional_faces)
    /\ c_pc' = "done"
    /\ UNCHANGED <<c_entry, faces, thresholds, strict_face_validation, enable_clustering,
                   n_clusters, face_idx, all_face_ids, directional_faces,
                   ambiguous_faces, cluster_input, fallback_clusters, c_error>>
    /\ UNCHANGED not_c

ClusterReturnEmpty ==
    /\ c_pc = "cluster"
    /\ Len(ValidIds(cluster_input)) = 0
    /\ fallback_clusters' = <<>>
    /\ c_pc' = IF c_entry = "classify_faces" THEN "clustered" ELSE "done"
    /\ UNCHANGED <<c_entry, faces, thresholds, strict_face_validation, enable_clustering,
                   n_clusters, face_idx, all_face_ids, directional_faces,
                   ambiguous_faces, cluster_input, result, c_error>>
    /\ UNCHANGED not_c

\* PCA needs n_samples >= n_components, KMeans n_samples >= n_clusters
ClusterRaiseValueError ==
    /\ c_pc = "cluster"
    /\ LET n == Len(ValidIds(cluster_input))
       IN  /\ n # 0
           /\ n < PCA_COMPONENTS \/ n < n_clusters
    /\ c_pc' = "raised"
    /\ c_error' = "ValueError"
    /\ UNCHANGED <<c_entry, faces, thresholds, strict_face_validation, enable_clustering,
                   n_clusters, face_idx, all_face_ids, directional_faces,
                   ambiguous_faces, cluster_input, fallback_clusters, result>>
    /\ UNCHANGED not_c

ClusterReturnGroups ==
    /\ c_pc = "cluster"
    /\ LET ids == ValidIds(cluster_input)
           n   == Len(ids)
       IN  /\ n >= PCA_COMPONENTS
           /\ n >= n_clusters
           /\ \E labels \in [1..n -> 0..(n_clusters - 1)] :
                 fallback_clusters' = GroupByCluster(ids, labels, n)
    /\ c_pc' = IF c_entry = "classify_faces" THEN "clustered" ELSE "done"
    /\ UNCHANGED <<c_entry, faces, thresholds, strict_face_validation, enable_clustering,
                   n_clusters, face_idx, all_face_ids, directional_faces,
                   ambiguous_faces, cluster_input, result, c_error>>
    /\ UNCHANGED not_c

ReturnWithClusters ==
    /\ c_pc = "clustered"
    /\ directional_faces' =
          MergeClusters(directional_faces, fallback_clusters,
                        Len(fallback_clusters))
    /\ result' = ClassificationResult(all_face_ids, directional_faces')
    /\ c_pc' = "done"
    /\ UNCHANGED <<c_entry, faces, thresholds, strict_face_validation, enable_clustering,
                   n_clusters, face_idx, all_face_ids, ambiguous_faces,
                   cluster_input, fallback_clusters, c_error>>
    /\ UNCHANGED not_c

ClassifyNext ==
    \/ RaiseInsufficientVertices
    \/ ClassifyDirectional
    \/ ClassifyAmbiguous
    \/ CallClusterFaces
    \/ ReturnWithoutClusters
    \/ ClusterReturnEmpty
    \/ ClusterRaiseValueError
    \/ ClusterReturnGroups
    \/ ReturnWithClusters

SpecClassify == ClassifyInit /\ [][ClassifyNext]_vars

----------------------------------------------------------------------------
(* Vocabulary of the classification properties *)

\* classify_faces has returned or raised
ClassifyEnded ==
    c_entry = "classify_faces" /\ c_pc \in {"done", "raised"}

\* a direct call of cluster_faces has returned or raised
ClusterEnded ==
    c_entry = "cluster_faces" /\ c_pc \in {"done", "raised"}

InputIds == [k \in 1..Len(faces) |-> faces[k].id]

\* the entries of directional_faces that hold face id f
LabelsHolding(f) ==
    {k \in 1..Len(directional_faces) : f \in Range(directional_faces[k].ids)}

(* C15: classify_faces never drops a face.  In non-strict mode the faces    *)
(* list of the result holds the id of every input face, once per face and   *)
(* in input order, also for faces with fewer than 3 vertices, with a zero   *)
(* normal, or with a normal that matches no axis.                           *)
C15_NoFaceDropped ==
    (ClassifyEnded /\ ~strict_face_validation) =>
        /\ c_pc = "done"
        /\ result.faces = InputIds

(* C16: a face with missing or insufficient node data is left out of the    *)
(* normal-based classification and recorded under the fallback label, so    *)
(* that at the return of classify_faces every face id of faces is recorded  *)
(* under exactly one label.                                                 *)
C16_EveryFaceUnderOneLabel ==
    (ClassifyEnded /\ c_pc = "done") =>
        \A f \in Range(result.faces) : Cardinality(LabelsHolding(f)) = 1

(* C17: cluster_faces returns an empty result and raises no error whenever  *)
(* fewer than 3 of the given faces have a valid non-zero normal, for every  *)
(* n_clusters.                                                              *)
C17_TooFewNormalsGiveEmpty ==
    (ClusterEnded /\ Len(ValidIds(cluster_input)) < 3) =>
        /\ c_pc = "done"
        /\ fallback_clusters = <<>>

----------------------------------------------------------------------------
(* The gmsh runner: src/src/gmsh_runner.py, with generate_boundary_block of *)
(* src/src/schema_writer.py.  What the kernel, the classifier and the       *)
(* schema say about one STEP file are inputs of the run.                    *)

\* direction_map of infer_velocity_vector
direction_map(label) ==
    CASE label = "x_min" -> <<1, 0, 0>>
      [] label = "x_max" -> <<-1, 0, 0>>
      [] label = "y_min" -> <<0, 1, 0>>
      [] label = "y_max" -> <<0, -1, 0>>
      [] label = "z_min" -> <<0, 0, 1>>
      [] label = "z_max" -> <<0, 0, -1>>

\* the first label of apply_faces found in direction_map gives the vector
infer_velocity_vector(apply_faces) ==
    LET known == SelectSeq(apply_faces, LAMBDA f : f \in DirectionalLabels)
    IN  IF known = <<>> THEN <<0, 0, 0>> ELSE direction_map(known[1])

\* the block generate_boundary_block builds from the classification
BoundaryBlock(bc) ==
    [faces       |-> bc.faces,
     type        |-> "dirichlet",
     apply_faces |-> bc.apply_faces,
     apply_to    |-> <<"pressure", "velocity">>,
     pressure    |-> 0,
     velocity    |-> infer_velocity_vector(bc.apply_faces),
     no_slip     |-> TRUE]

\* validate(instance=data, schema=schema): the exception it raises, "" if none
validate_boundary_conditions_Swallowed(valid) == ""

validate_boundary_conditions(valid) ==
    IF valid THEN "" ELSE "ValidationError"

\* lines 185-189: the block after the inlet of flow_data.json is injected
InjectedBlock(block, fd) ==
    [block EXCEPT !.apply_faces = <<"x_min">>,
                  !.apply_to = <<"velocity", "pressure">>,
                  !.velocity = fd.initial_velocity,
                  !.pressure = fd.initial_pressure,
                  !.no_slip = TRUE]

\* try ... finally: where control goes when the try block is left
ExitTarget_ExceptOnly(err) == IF err = "" THEN "finally" ELSE "raised"

ExitTarget(err) == "finally"

\* min(dims), max(dims)
MinDim(dims) == CHOOSE x \in Range(dims) : \A y \in Range(dims) : x <= y

MaxDim(dims) == CHOOSE x \in Range(dims) : \A y \in Range(dims) : x >= y

\* classify_geometry: both branches divide by min_dim
classify_geometry(min_dim, max_dim, count) ==
    IF min_dim = 0 THEN "ZeroDivisionError"
    ELSE IF count > 1 /\ max_dim < 5 * min_dim THEN "solid"
    ELSE IF max_dim > 10 * min_dim THEN "shell"
    ELSE "ambiguous"

\* Bounding boxes: a cube, a flat box, a long box
BboxDims == {<<2, 2, 2>>, <<2, 0, 2>>, <<40, 2, 2>>}

\* What classify_faces can hand to the runner
Classifications ==
    {[faces |-> <<>>, apply_faces |-> <<>>],
     [faces |-> <<1, 2>>, apply_faces |-> <<"x_max", "z_max">>]}

FlowData == [initial_velocity |-> <<2, 0, 0>>, initial_pressure |-> 5]

RunnerInit ==
    /\ GeneratorsIdle
    /\ OverrideIdle
    /\ ClassifyIdle
    /\ InletIdle
    /\ r_pc = "start"
    /\ step_file \in {"absent", "no_volumes", "volumes_lost", "ok"}
    /\ gmsh_fault \in {"none", "open", "mesh"}
    /\ classify_outcome \in {"ok", "ValueError"}
    /\ classified \in Classifications
    /\ block_valid \in BOOLEAN
    /\ flow_data \in {"absent", "ok", "malformed"}
    /\ output_arg \in BOOLEAN
    /\ bbox_dims \in BboxDims
    /\ volume_count \in {1, 2}
    /\ geometry_type = ""
    /\ gmsh_initialized = 0
    /\ gmsh_finalized = 0
    /\ boundary_block = <<>>
    /\ validated = FALSE
    /\ written = 0
    /\ r_error = ""

\* the inputs of one run
run_inputs == <<step_file, gmsh_fault, classify_outcome, classified,
                block_valid, flow_data, output_arg, bbox_dims, volume_count>>

RaiseStepNotFound ==
    /\ r_pc = "start"
    /\ step_file = "absent"
    /\ r_error' = "FileNotFoundError"
    /\ r_pc' = "raised"
    /\ UNCHANGED <<run_inputs, geometry_type, gmsh_initialized, gmsh_finalized,
                   boundary_block, validated, written>>
    /\ UNCHANGED not_r

GmshInitialize ==
    /\ r_pc = "start"
    /\ step_file # "absent"
    /\ gmsh_initialized' = gmsh_initialized + 1
    /\ r_pc' = "validate"
    /\ UNCHANGED <<run_inputs, geometry_type, gmsh_finalized, boundary_block, validated,
                   written, r_error>>
    /\ UNCHANGED not_r

RaiseNoVolumesInFile ==
    /\ r_pc = "validate"
    /\ step_file = "no_volumes"
    /\ r_error' = "StepValidationError"
    /\ r_pc' = ExitTarget(r_error')
    /\ UNCHANGED <<run_inputs, geometry_type, gmsh_initialized, gmsh_finalized,
                   boundary_block, validated, written>>
    /\ UNCHANGED not_r

StepValidated ==
    /\ r_pc = "validate"
    /\ step_file # "no_volumes"
    /\ r_pc' = "open"
    /\ UNCHANGED <<run_inputs, geometry_type, gmsh_initialized, gmsh_finalized,
                   boundary_block, validated, written, r_error>>
    /\ UNCHANGED not_r

\* a call into the kernel raises
RaiseGmshError ==
    /\ r_pc \in {"open", "mesh"}
    /\ gmsh_fault = r_pc
    /\ r_error' = "Exception"
    /\ r_pc' = ExitTarget(r_error')
    /\ UNCHANGED <<run_inputs, geometry_type, gmsh_initialized, gmsh_finalized,
                   boundary_block, validated, written>>
    /\ UNCHANGED not_r

OpenAndSynchronize ==
    /\ r_pc = "open"
    /\ gmsh_fault # "open"
    /\ step_file # "volumes_lost"
    /\ r_pc' = "bbox"
    /\ UNCHANGED <<run_inputs, geometry_type, gmsh_initialized, gmsh_finalized,
                   boundary_block, validated, written, r_error>>
    /\ UNCHANGED not_r

RaiseNoValidVolumes ==
    /\ r_pc = "open"
    /\ gmsh_fault # "open"
    /\ step_file = "volumes_lost"
    /\ r_error' = "ValueError"
    /\ r_pc' = ExitTarget(r_error')
    /\ UNCHANGED <<run_inputs, geometry_type, gmsh_initialized, gmsh_finalized,
                   boundary_block, validated, written>>
    /\ UNCHANGED not_r

RaiseZeroDivision ==
    /\ r_pc = "bbox"
    /\ classify_geometry(MinDim(bbox_dims), MaxDim(bbox_dims), volume_count)
          = "ZeroDivisionError"
    /\ r_error' = "ZeroDivisionError"
    /\ r_pc' = ExitTarget(r_error')
    /\ UNCHANGED <<run_inputs, geometry_type, gmsh_initialized, gmsh_finalized,
                   boundary_block, validated, written>>
    /\ UNCHANGED not_r

ClassifyGeometry ==
    /\ r_pc = "bbox"
    /\ classify_geometry(MinDim(bbox_dims), MaxDim(bbox_dims), volume_count)
          # "ZeroDivisionError"
    /\ geometry_type' =
          classify_geometry(MinDim(bbox_dims), MaxDim(bbox_dims), volume_count)
    /\ r_pc' = "mesh"
    /\ UNCHANGED <<run_inputs, gmsh_initialized, gmsh_finalized,
                   boundary_block, validated, written, r_error>>
    /\ UNCHANGED not_r

MeshAndExtractFaces ==
    /\ r_pc = "mesh"
    /\ gmsh_fault # "mesh"
    /\ r_pc' = "classify"
    /\ UNCHANGED <<run_inputs, geometry_type, gmsh_initialized, gmsh_finalized,
                   boundary_block, validated, written, r_error>>
    /\ UNCHANGED not_r

FacesClassified ==
    /\ r_pc = "classify"
    /\ classify_outcome = "ok"
    /\ r_pc' = "block"
    /\ UNCHANGED <<run_inputs, geometry_type, gmsh_initialized, gmsh_finalized,
                   boundary_block, validated, written, r_error>>
    /\ UNCHANGED not_r

RaiseClassifyError ==
    /\ r_pc = "classify"
    /\ classify_outcome # "ok"
    /\ r_error' = classify_outcome
    /\ r_pc' = ExitTarget(r_error')
    /\ UNCHANGED <<run_inputs, geometry_type, gmsh_initialized, gmsh_finalized,
                   boundary_block, validated, written>>
    /\ UNCHANGED not_r

BlockValidated ==
    /\ r_pc = "block"
    /\ validate_boundary_conditions(block_valid) = ""
    /\ validated' = TRUE
    /\ boundary_block' = BoundaryBlock(classified)
    /\ r_pc' = "inject"
    /\ UNCHANGED <<run_inputs, geometry_type, gmsh_initialized, gmsh_finalized, written,
                   r_error>>
    /\ UNCHANGED not_r

RaiseValidationError ==
    /\ r_pc = "block"
    /\ validate_boundary_conditions(block_valid) # ""
    /\ validated' = TRUE
    /\ r_error' = validate_boundary_conditions(block_valid)
    /\ r_pc' = ExitTarget(r_error')
    /\ UNCHANGED <<run_inputs, geometry_type, gmsh_initialized, gmsh_finalized,
                   boundary_block, written>>
    /\ UNCHANGED not_r

InjectInlet ==
    /\ r_pc = "inject"
    /\ flow_data = "ok"
    /\ boundary_block' = InjectedBlock(boundary_block, FlowData)
    /\ r_pc' = ExitTarget("")
    /\ UNCHANGED <<run_inputs, geometry_type, gmsh_initialized, gmsh_finalized, validated,
                   written, r_error>>
    /\ UNCHANGED not_r

InjectionFails ==
    /\ r_pc = "inject"
    /\ flow_data = "malformed"
    /\ r_pc' = ExitTarget("")
    /\ UNCHANGED <<run_inputs, geometry_type, gmsh_initialized, gmsh_finalized,
                   boundary_block, validated, written, r_error>>
    /\ UNCHANGED not_r

SkipInjection ==
    /\ r_pc = "inject"
    /\ flow_data = "absent"
    /\ r_pc' = ExitTarget("")
    /\ UNCHANGED <<run_inputs, geometry_type, gmsh_initialized, gmsh_finalized,
                   boundary_block, validated, written, r_error>>
    /\ UNCHANGED not_r

GmshFinalize ==
    /\ r_pc = "finally"
    /\ gmsh_finalized' = gmsh_finalized + 1
    /\ r_pc' = IF r_error = "" THEN "returned" ELSE "raised"
    /\ UNCHANGED <<run_inputs, geometry_type, gmsh_initialized, boundary_block, validated,
                   written, r_error>>
    /\ UNCHANGED not_r

WriteBoundaryJson ==
    /\ r_pc = "returned"
    /\ output_arg
    /\ written' = written + 1
    /\ r_pc' = "exit"
    /\ UNCHANGED <<run_inputs, geometry_type, gmsh_initialized, gmsh_finalized,
                   boundary_block, validated, r_error>>
    /\ UNCHANGED not_r

ExitWithoutOutput ==
    /\ r_pc = "returned"
    /\ ~output_arg
    /\ r_pc' = "exit"
    /\ UNCHANGED <<run_inputs, geometry_type, gmsh_initialized, gmsh_finalized,
                   boundary_block, validated, written, r_error>>
    /\ UNCHANGED not_r

RunnerNext ==
    \/ RaiseStepNotFound
    \/ GmshInitialize
    \/ RaiseNoVolumesInFile
    \/ StepValidated
    \/ RaiseGmshError
    \/ OpenAndSynchronize
    \/ RaiseNoValidVolumes
    \/ RaiseZeroDivision
    \/ ClassifyGeometry
    \/ MeshAndExtractFaces
    \/ FacesClassified
    \/ RaiseClassifyError
    \/ BlockValidated
    \/ RaiseValidationError
    \/ InjectInlet
    \/ InjectionFails
    \/ SkipInjection
    \/ GmshFinalize
    \/ WriteBoundaryJson
    \/ ExitWithoutOutput

SpecRunner == RunnerInit /\ [][RunnerNext]_vars

\* The interpreter keeps running the call until it returns or raises
FairSpecRunner == SpecRunner /\ WF_vars(RunnerNext)

----------------------------------------------------------------------------
(* Vocabulary of the runner properties *)

\* extract_boundary_conditions_from_step has returned or raised
RunEnded == r_pc \in {"returned", "raised", "exit"}

(* C19: the gmsh session is scoped.  A run of                               *)
(* extract_boundary_conditions_from_step that initializes the kernel        *)
(* finalizes it afterwards, exactly once, on every exit path: never more    *)
(* often than it initialized, and once by the time the call has ended.      *)
C19_KernelFinalizedOnce ==
    /\ [](/\ gmsh_initialized <= 1
          /\ gmsh_finalized <= gmsh_initialized
          /\ RunEnded => gmsh_finalized = gmsh_initialized)
    /\ (gmsh_initialized = 1) ~> (gmsh_finalized = 1)

C19_Witness ==
    /\ r_pc = "raised"
    /\ r_error = "StepValidationError"
    /\ gmsh_initialized = 1
    /\ gmsh_finalized = 1

(* C20: a schema validation failure is fatal.  When the block fails         *)
(* validation the error leaves the run, it is not swallowed, and            *)
(* write_boundary_json is not invoked in that run; a block is written only  *)
(* after it was validated.                                                  *)
C20_ValidationFailureIsFatal ==
    /\ (validated /\ ~block_valid) =>
          /\ r_error = "ValidationError"
          /\ r_pc \in {"finally", "raised"}
          /\ written = 0
    /\ written > 0 => validated

C20_Witness ==
    /\ validated
    /\ ~block_valid
    /\ output_arg
    /\ r_pc = "raised"
    /\ written = 0

(* C21: a boundary block is never mutated after it has been validated.      *)
(* From the validation inside generate_boundary_block until the block is    *)
(* returned or written no field of it changes, so the block written is the  *)
(* block that passed validation.                                            *)
C21_BlockFrozenAfterValidation ==
    [][validated => boundary_block' = boundary_block]_vars

\* the source geometry has no 3-D volume, or its bounding box is flat
InvalidGeometry ==
    \/ step_file \in {"no_volumes", "volumes_lost"}
    \/ MinDim(bbox_dims) <= 0

(* C22: invalid geometry is fatal before classification.  When the bounding *)
(* box has zero or negative extent on an axis, or the geometry has no 3-D   *)
(* volume, the run raises a ValueError or ValidationError and never reaches *)
(* the call of classify_faces.                                              *)
C22_InvalidGeometryIsFatal ==
    (InvalidGeometry /\ step_file # "absent" /\ gmsh_fault = "none") =>
        /\ r_pc \notin {"classify", "block", "inject", "returned", "exit"}
        /\ r_pc = "raised" => r_error \in {"ValueError", "StepValidationError"}

(* C25: an override map that is empty or holds no list value leaves the     *)
(* classification unchanged: apply_overrides returns, and the result equals *)
(* the input on every label's id list and on faces and apply_faces.         *)
C25_EmptyOverrideIsIdentity ==
    (FirstApplyEnded /\ ListLabels = {}) =>
        /\ ov_pc = "done"
        /\ \A k \in DOMAIN boundary_data :
              k \in DOMAIN updated /\ updated[k] = boundary_data[k]

----------------------------------------------------------------------------
(* generate_internal_bc_blocks called with debug output and with incoming   *)
(* roles on any face                                                        *)

\* Faces on a bounding plane: the two caps and a lateral face
InternalGeometry(m) == {g \in GeometryOptions(m) : g.face_label # "wall"}

InternalInit ==
    /\ pc = "start"
    /\ flow_region = "internal"
    /\ velocity \in {<<1, 0, 0>>, <<-1, 0, 0>>}
    /\ pressure = PRESSURE
    /\ no_slip = TRUE
    /\ \E m \in Extents :
          /\ min_bounds = <<0, 0, 0>>
          /\ max_bounds = <<m, m, m>>
          /\ surfaces \in SeqsUpTo(Tags(FaceIds), MaxFaces)
          /\ face_geometry_data \in
                PartialFns(FaceIdsOf(surfaces), InternalGeometry(m))
    /\ face_roles \in
          PartialFns(FaceIdsOf(surfaces),
                     {<<"wall", "wall">>, <<"outlet", "x_max">>})
    /\ given_roles = face_roles
    /\ debug = TRUE
    /\ log = <<>>
    /\ axis_index = 0
    /\ is_positive_flow = TRUE
    /\ todo = {}
    /\ idx = 1
    /\ grouped_blocks = <<>>
    /\ boundary_conditions = <<>>
    /\ synthesized_id = 0
    /\ perp_todo = <<>>
    /\ error = ""
    /\ OverrideIdle
    /\ ClassifyIdle
    /\ RunnerIdle
    /\ InletIdle

InternalNext ==
    \/ CallInternal
    \/ InternalResolveStep
    \/ InternalSkipFace
    \/ InternalNewBlock
    \/ InternalAppendFace
    \/ InternalReturn

SpecInternal == InternalInit /\ [][InternalNext]_vars

----------------------------------------------------------------------------
(* Vocabulary of the properties *)

InternalDone == flow_region = "internal" /\ pc = "done"

\* The ids of the surfaces list, in its order
SurfaceIds == [k \in 1..Len(surfaces) |-> surfaces[k][2]]

\* face_roles.get(face_id, ("wall", "wall"))
RoleOf(f) == Get(face_roles, f, <<"wall", "wall">>)

\* The (role, label) keys of the faces that are not skipped
NonSkipKeys == {rl \in {RoleOf(f) : f \in Range(SurfaceIds)} : rl[1] # "skip"}

\* The faces with one key, in the order of surfaces
FacesWithKey(key) ==
    LET HasKey(f) == RoleOf(f) = key IN SelectSeq(SurfaceIds, HasKey)

(* C24: internal-flow block assembly groups by (role, label).  The output   *)
(* has exactly one block for each distinct key among the non-skip faces,    *)
(* and the faces list of that block holds exactly the faces with the key,   *)
(* one entry per entry of surfaces, in the order of surfaces.               *)
C24_OneBlockPerKey ==
    InternalDone =>
        /\ boundary_conditions = Values(grouped_blocks)
        /\ Len(grouped_blocks) = Cardinality(NonSkipKeys)
        /\ \A key \in NonSkipKeys :
              /\ Cardinality({k \in 1..Len(grouped_blocks) :
                                 grouped_blocks[k].key = key}) = 1
              /\ \A k \in 1..Len(grouped_blocks) :
                    grouped_blocks[k].key = key =>
                       /\ boundary_conditions[k].faces = FacesWithKey(key)
                       /\ boundary_conditions[k].role = key[1]

C24_Witness ==
    /\ InternalDone
    /\ DistinctNonNegativeIds
    /\ \E k \in 1..Len(boundary_conditions) :
          Len(boundary_conditions[k].faces) = 2

(* C26: one sign convention.  A flow-axis face resolved to the min plane is *)
(* inlet for a positive flow sign and outlet for a negative one, a face     *)
(* resolved to the max plane is outlet for positive and inlet for negative; *)
(* the other sign on the same face swaps inlet and outlet and keeps the     *)
(* label and every wall or skip.  The synthesized inlet and outlet of the   *)
(* external generator follow the same convention.                           *)
C26_OneSignConvention ==
    /\ InInternal =>
          \A f \in ResolvedFaces :
              LET rl == face_roles[f]
                  rev == ResolveRole(face_geometry_data[f], axis_index,
                                     ~is_positive_flow, min_bounds, max_bounds)
                  a == axis_index
              IN  /\ rl[2] = MinLabel(a) =>
                        rl[1] = IF is_positive_flow THEN "inlet" ELSE "outlet"
                  /\ rl[2] = MaxLabel(a) =>
                        rl[1] = IF is_positive_flow THEN "outlet" ELSE "inlet"
                  /\ rev[2] = rl[2]
                  /\ rl[1] = "inlet" => rev[1] = "outlet"
                  /\ rl[1] = "outlet" => rev[1] = "inlet"
                  /\ rl[1] \in {"wall", "skip"} => rev[1] = rl[1]
    /\ ExternalDone =>
          \A k \in (SynthBase + 1)..(SynthBase + 2) :
              LET b == boundary_conditions[k]
                  a == axis_index
              IN  /\ b.apply_faces = <<MinLabel(a)>> =>
                        b.role = IF is_positive_flow THEN "inlet" ELSE "outlet"
                  /\ b.apply_faces = <<MaxLabel(a)>> =>
                        b.role = IF is_positive_flow THEN "outlet" ELSE "inlet"
                  /\ b.apply_faces[1] \in {MinLabel(a), MaxLabel(a)}

C26_Witness ==
    /\ InInternal
    /\ ~is_positive_flow
    /\ \E f \in ResolvedFaces : face_roles[f] = <<"inlet", MaxLabel(axis_index)>>
    /\ \E f \in ResolvedFaces : face_roles[f] = <<"outlet", MinLabel(axis_index)>>

\* Flow-axis faces for which both bounding-plane tests of lines 27-32 hold
TieFaces ==
    {f \in GivenFaces :
        LET d == face_geometry_data[f]
            c == d.p_centroid[d.max_index + 1]
        IN  /\ d.max_index = axis_index
            /\ is_min_bound_face(c, min_bounds[d.max_index + 1])
            /\ is_max_bound_face(c, max_bounds[d.max_index + 1])}

\* The log holds a line about face f other than the two lines of loop 2
AmbiguityLogged(f) ==
    \E k \in 1..Len(log) : log[k][2] = f /\ log[k][1] \notin {"skip", "grouped"}

(* C27: tie-break.  A flow-axis face that passes both the min-plane and the *)
(* max-plane test is given a single side, that of the first rule (the min   *)
(* plane), and the ambiguity is logged.                                     *)
C27_TieBreakLogged ==
    (InternalDone /\ debug) =>
        \A f \in TieFaces :
            /\ face_roles[f][2] = MinLabel(axis_index)
            /\ AmbiguityLogged(f)

(* C28: role resolution never changes a role after block assembly has      *)
(* begun.  In generate_internal_bc_blocks, from the creation of the first   *)
(* block until the return, the face-role table is only read.                *)
C28_RolesFixedDuringAssembly ==
    [][(flow_region = "internal" /\ grouped_blocks # <<>>)
          => face_roles' = face_roles]_vars

C28_Witness ==
    /\ InternalDone
    /\ grouped_blocks # <<>>
    /\ \E f \in GivenFaces : f \notin DOMAIN given_roles

\* The role loop 2 reads for a face: resolved from the geometry when the
\* face has geometry data, else the caller's, else wall
RoleUsed(f) ==
    IF f \in GivenFaces
    THEN ResolveRole(face_geometry_data[f], axis_index, is_positive_flow,
                     min_bounds, max_bounds)
    ELSE Get(given_roles, f, <<"wall", "wall">>)

\* The blocks assembled from RoleUsed alone
RECURSIVE Assemble(_, _)
Assemble(k, blocks) ==
    IF k > Len(surfaces) THEN Values(blocks)
    ELSE LET f == surfaces[k][2]
             rl == RoleUsed(f)
             j == KeyIndex(blocks, rl)
         IN  Assemble(k + 1,
                 IF rl[1] = "skip" THEN blocks
                 ELSE IF j = 0
                      THEN Append(blocks,
                                  [key |-> rl,
                                   block |-> NewBlock(rl[1], rl[2], f, velocity,
                                                      pressure, no_slip)])
                      ELSE [blocks EXCEPT ![j].block.faces = Append(@, f)])

(* C30: the internal-flow blocks do not depend on the roles the caller      *)
(* passes for faces that have geometry data.  The blocks returned are those *)
(* assembled from the geometry of such faces alone; the caller's role is    *)
(* used only for a surface without geometry data, wall when it has none.    *)
C30_IncomingRolesIgnored ==
    InternalDone => boundary_conditions = Assemble(1, <<>>)

C30_Witness ==
    /\ InternalDone
    /\ \E f \in GivenFaces \cap Range(SurfaceIds) :
          /\ f \in DOMAIN given_roles
          /\ given_roles[f] # face_roles[f]
    /\ \E g \in Range(SurfaceIds) \ GivenFaces :
          /\ g \in DOMAIN given_roles
          /\ given_roles[g][1] = "outlet"
          /\ \E k \in 1..Len(boundary_conditions) :
                /\ boundary_conditions[k].role = "outlet"
                /\ g \in Range(boundary_conditions[k].faces)

\* the axis labels within the threshold of the normal of the k-th face
Matching(k) ==
    {j \in 1..6 : WithinThreshold(compute_face_normal(faces[k].vertices),
                                  AxisMapLabels[j], thresholds)}

\* the axis entries of directional_faces that hold face id f
AxisEntriesHolding(f) ==
    {j \in 1..6 : /\ j <= Len(directional_faces)
                  /\ directional_faces[j].key = AxisMapLabels[j]
                  /\ f \in Range(directional_faces[j].ids)}

(* C29: normal-angle strategy.  classify_face_direction returns the first   *)
(* label, in the order x_min, x_max, y_min, y_max, z_min, z_max, whose axis *)
(* vector lies within the angular threshold of the face normal, and the     *)
(* fallback label wall when no axis matches; a normal equal to a unit axis  *)
(* vector gets the label of that axis.                                      *)
C29_FirstMatchingAxisWins ==
    (c_entry = "classify_faces" /\ c_pc # "idle") =>
        /\ \A k \in 1..(face_idx - 1) :
              LET n == compute_face_normal(faces[k].vertices)
                  M == Matching(k)
              IN  IF M = {}
                  THEN /\ classify_face_direction(n, thresholds) = "wall"
                       /\ AxisEntriesHolding(faces[k].id) = {}
                       /\ \E i \in 1..Len(ambiguous_faces) :
                             ambiguous_faces[i].id = faces[k].id
                  ELSE AxisEntriesHolding(faces[k].id)
                          = {CHOOSE j \in M : \A i \in M : j <= i}
        /\ \A j \in 1..6 :
              classify_face_direction(AxisVector(AxisMapLabels[j]), thresholds)
                  = AxisMapLabels[j]

C29_Witness ==
    /\ c_entry = "classify_faces"
    /\ c_pc = "done"
    /\ \E k \in 1..(face_idx - 1) :
          /\ Cardinality(Matching(k)) >= 2
          /\ AxisEntriesHolding(faces[k].id) = {2}
    /\ \E k \in 1..(face_idx - 1) : Matching(k) = {}

----------------------------------------------------------------------------
(* Inlet injection: src/src/create_inlet_boundary.py *)

\* b.get("name")
BlockName(b) == IF "name" \in DOMAIN b THEN b.name ELSE "None"

\* boundary_config.get("boundaries", [])
BoundariesOf(config) == Get(config, "boundaries", <<>>)

\* Line 31
InletBlock(vel, pres) ==
    [name |-> "inlet",
     apply_faces |-> <<"x_min">>,
     type |-> "velocity-pressure-inlet",
     velocity |-> vel,
     pressure |-> pres]

\* WithoutInlet that keeps every block
WithoutInlet_KeepAll(bs) == bs

\* Lines 39-42: the blocks whose name is not inlet, in their order
WithoutInlet(bs) ==
    LET Kept(b) == BlockName(b) # "inlet" IN SelectSeq(bs, Kept)

\* Blocks a config can hold before the call: a wall, an earlier inlet, an
\* outlet, and a block without a name
ConfigBlocks ==
    {[name |-> "wall", apply_faces |-> <<"x_max">>, type |-> "no-slip"],
     [name |-> "inlet", apply_faces |-> <<"x_min">>,
      type |-> "velocity-pressure-inlet", velocity |-> <<0, 0, 0>>,
      pressure |-> 0],
     [name |-> "outlet", apply_faces |-> <<"x_max">>, type |-> "pressure-outlet"],
     [apply_faces |-> <<"y_min">>, type |-> "no-slip"]}

\* A config with a boundaries list, or one without the key
BoundaryConfigs ==
    {[boundaries |-> bs] : bs \in SeqsUpTo(ConfigBlocks, MaxBlocks)}
        \cup {[version |-> "1"]}

InletVelocities == {<<1, 0, 0>>, <<0, 0, 13>>}

InletPressures == {100, 146}

InletInit ==
    /\ GeneratorsIdle
    /\ OverrideIdle
    /\ ClassifyIdle
    /\ RunnerIdle
    /\ boundary_config \in BoundaryConfigs
    /\ given_config = boundary_config
    /\ inlet_velocity = <<0, 0, 0>>
    /\ inlet_pressure = 0
    /\ injections = 0

\* inject_inlet_boundary(boundary_config, velocity, pressure)
InjectInletBoundary ==
    /\ injections < MaxInjections
    /\ \E vel \in InletVelocities, pres \in InletPressures :
          /\ inlet_velocity' = vel
          /\ inlet_pressure' = pres
          /\ boundary_config' =
                Put(boundary_config, "boundaries",
                    Append(WithoutInlet(BoundariesOf(boundary_config)),
                           InletBlock(vel, pres)))
    /\ injections' = injections + 1
    /\ UNCHANGED given_config
    /\ UNCHANGED not_i

InletNext == InjectInletBoundary

SpecInlet == InletInit /\ [][InletNext]_vars

----------------------------------------------------------------------------

\* the blocks of bs that are not named inlet, in their order
OtherBlocks(bs) ==
    LET NotInlet(b) == ~("name" \in DOMAIN b /\ b.name = "inlet")
    IN  SelectSeq(bs, NotInlet)

(* C23: inlet injection is an idempotent upsert.  After any sequence of     *)
(* inject_inlet_boundary calls the boundaries list holds exactly one block  *)
(* named inlet, with the velocity and pressure of the latest call,          *)
(* apply_faces [x_min] and type velocity-pressure-inlet, and the blocks not *)
(* named inlet are those of the original config, unchanged and in their     *)
(* original order.                                                          *)
C23_InletUpsert ==
    injections >= 1 =>
        LET bs == boundary_config.boundaries
            inlets == {k \in 1..Len(bs) :
                          "name" \in DOMAIN bs[k] /\ bs[k].name = "inlet"}
        IN  /\ Cardinality(inlets) = 1
            /\ \A k \in inlets :
                  /\ bs[k].velocity = inlet_velocity
                  /\ bs[k].pressure = inlet_pressure
                  /\ bs[k].apply_faces = <<"x_min">>
                  /\ bs[k].type = "velocity-pressure-inlet"
            /\ OtherBlocks(bs) = OtherBlocks(BoundariesOf(given_config))

C23_Witness ==
    /\ injections >= 2
    /\ \E k \in 1..Len(BoundariesOf(given_config)) :
          BlockName(BoundariesOf(given_config)[k]) = "inlet"
    /\ Len(OtherBlocks(boundary_config.boundaries)) >= 1
    /\ inlet_pressure = 146

====
